---- MODULE Spec2Model ----
(***************************************************************************)
(* Model of the Snowflake database-role grant resources:                   *)
(*   - the identifier encoding of snowflake_grant_privileges_to_database_  *)
(*     role (GrantPrivilegesToDatabaseRoleID, String, New...ID),           *)
(*   - the lifecycle callbacks of that resource (Create/Read/Update/       *)
(*     Delete/Importer) and                                                *)
(*   - the lifecycle callbacks of snowflake_database_role_grants.          *)
(* Strings are sequences of one-character strings, so that Split and Join  *)
(* act on delimiters the way strings.Split and strings.Join do.            *)
(***************************************************************************)
EXTENDS Integers, Sequences, FiniteSets, TLC

VARIABLES
    \* ---- identifier encoder (SpecID) ----
    idIn,      \* the identity handed to String()
    idStr,     \* the identifier string String() produced
    idOut,     \* the identity NewGrantPrivilegesToDatabaseRoleID decoded
    idPc,      \* "new" -> "encoded" -> "decoded"
    \* ---- snowflake_grant_privileges_to_database_role (Spec) ----
    cfg,       \* the configuration the host hands to the callbacks
    attrs,     \* the attributes of the schema.ResourceData (state)
    id,        \* d.Id()
    remote,    \* privileges the remote system holds for role on the target
    stmts,     \* remote statements issued by the last callback, in order
    err,       \* what the last callback returned
    op,        \* the last callback that ran
    shown,     \* the rows the last callback's SHOW GRANTS returned
    origin,    \* attributes of the resource that produced the id (import)
    \* ---- the privilege delta of an update (SpecDiff) ----
    diffOld,   \* the privileges of the prior state
    diffNew,   \* the privileges of the plan
    delta,     \* the add and remove lists computed from them
    \* ---- snowflake_database_role_grants (SpecRG) ----
    rgAttrs,   \* the attributes of the schema.ResourceData (state)
    rgId,      \* d.Id()
    rgWorld,   \* the remote system: parent role, grantees, grants
    rgStmts,   \* what the last callback sent, each with its outcome
    rgErr,     \* what the last callback returned
    rgOp,      \* the last callback that ran
    rgCfg,     \* the configuration handed to the last create or update
    \* ---- the statement builder of pkg/snowflake (SpecSQL) ----
    sqlIn,     \* database, role, grantee and the builder method to call
    sqlExe,    \* the DatabaseRoleGrantExecutable built, or NoExecutable
    sqlGrant,  \* what Grant() returned, EmptyStr before the call
    sqlRevoke  \* what Revoke() returned, EmptyStr before the call

idVars == <<idIn, idStr, idOut, idPc>>
gpVars == <<cfg, attrs, id, remote, stmts, err, op, shown, origin>>
diffVars == <<diffOld, diffNew, delta>>
rgVars == <<rgAttrs, rgId, rgWorld, rgStmts, rgErr, rgOp, rgCfg>>
sqlVars == <<sqlIn, sqlExe, sqlGrant, sqlRevoke>>
vars == <<idVars, gpVars, diffVars, rgVars, sqlVars>>

----------------------------------------------------------------------------
\* Strings

Str_true == <<"t", "r", "u", "e">>
Str_false == <<"f", "a", "l", "s", "e">>
EmptyStr == <<>>

\* helpers.IDDelimiter and the literal "|" of strings.Split(id, "|")
IDDelimiter == "|"
\* the separator of the privilege list
ListDelimiter == ","

RECURSIVE Join(_, _)
\* strings.Join(list, sep)
Join(list, sep) ==
    IF Len(list) = 0 THEN EmptyStr
    ELSE IF Len(list) = 1 THEN list[1]
    ELSE list[1] \o <<sep>> \o Join(Tail(list), sep)

RECURSIVE SplitFrom(_, _, _)
\* strings.Split, with the field being collected carried in cur
SplitFrom(s, sep, cur) ==
    IF Len(s) = 0 THEN <<cur>>
    ELSE IF s[1] = sep THEN <<cur>> \o SplitFrom(Tail(s), sep, EmptyStr)
    ELSE SplitFrom(Tail(s), sep, Append(cur, s[1]))

\* strings.Split(s, sep): n separators give n+1 fields, "" gives [""]
Split(s, sep) == SplitFrom(s, sep, EmptyStr)

\* strconv.FormatBool
FormatBool(b) == IF b THEN Str_true ELSE Str_false

\* slices.Contains
Contains(list, x) == \E i \in 1..Len(list) : list[i] = x

----------------------------------------------------------------------------
\* The names the model draws its inputs from

RoleR1 == <<"R", "1">>
DatabaseDB1 == <<"D", "B", "1">>
SchemaS1 == <<"S", "1">>
ObjectT1 == <<"S", "1", ".", "T", "1">>
TypeTABLE == <<"T", "A", "B", "L", "E">>
TypeTABLES == <<"T", "A", "B", "L", "E", "S">>
TypeDATABASE == <<"D", "A", "T", "A", "B", "A", "S", "E">>
TypeSCHEMA == <<"S", "C", "H", "E", "M", "A">>
TypeVIEW == <<"V", "I", "E", "W">>
PrivSELECT == <<"S", "E", "L", "E", "C", "T">>
PrivUSAGE == <<"U", "S", "A", "G", "E">>
PrivMONITOR == <<"M", "O", "N", "I", "T", "O", "R">>
PrivINSERT == <<"I", "N", "S", "E", "R", "T">>

\* every privilege name, in the order schema.Set.List() returns them
PrivilegeOrder == <<PrivSELECT, PrivUSAGE, PrivMONITOR, PrivINSERT>>

\* how many of the privilege names a configuration may use
NumPrivileges == 2

Privileges == {PrivilegeOrder[i] : i \in 1..NumPrivileges}

\* the privileges the configurations of the long lifecycle choose from
LifecyclePrivileges == {PrivSELECT, PrivUSAGE}

RECURSIVE ListFrom(_, _)
\* the elements of set among PrivilegeOrder[i..], in that order
ListFrom(set, i) ==
    IF i > Len(PrivilegeOrder) THEN <<>>
    ELSE IF PrivilegeOrder[i] \in set
         THEN <<PrivilegeOrder[i]>> \o ListFrom(set, i + 1)
         ELSE ListFrom(set, i + 1)

\* expandStringList(set.List()): the elements of a schema.Set as a list,
\* each once, in the set's own fixed order
expandStringList(set) == ListFrom(set, 1)

\* the elements of a list, as d.Set stores them in a TypeSet attribute
ToSet(list) == {list[i] : i \in 1..Len(list)}

----------------------------------------------------------------------------
\* GrantPrivilegesToDatabaseRoleID

\* &GrantPrivilegesToDatabaseRoleID{}: every field at its zero value
ZeroID ==
    [RoleName |-> EmptyStr, DatabaseName |-> EmptyStr, Privileges |-> <<>>,
     AllPrivileges |-> FALSE, WithGrantOption |-> FALSE, OnDatabase |-> FALSE,
     OnSchema |-> FALSE, OnSchemaObject |-> FALSE, All |-> FALSE,
     Future |-> FALSE, ObjectType |-> EmptyStr, ObjectName |-> EmptyStr,
     ObjectTypePlural |-> EmptyStr, InSchema |-> FALSE,
     SchemaName |-> EmptyStr, InDatabase |-> FALSE]

\* one attribute handed to EncodeSnowflakeID, by its Go type
AttrString(s) == [kind |-> "string", v |-> s]
AttrBool(b) == [kind |-> "bool", v |-> b]
AttrList(l) == [kind |-> "list", v |-> l]

\* how EncodeSnowflakeID renders one attribute
RenderAttr(a) ==
    CASE a.kind = "string" -> a.v
      [] a.kind = "bool" -> FormatBool(a.v)
      [] a.kind = "list" -> Join(a.v, ListDelimiter)

\* helpers.EncodeSnowflakeID(attributes...): the rendered attributes joined
\* by the field delimiter
EncodeSnowflakeID(attributes) ==
    Join([i \in 1..Len(attributes) |-> RenderAttr(attributes[i])], IDDelimiter)

\* an argument list with the object name ahead of the object type
IDAttributesNameFirst(v) ==
    <<AttrString(v.RoleName), AttrString(v.DatabaseName),
      AttrList(v.Privileges), AttrBool(v.AllPrivileges),
      AttrBool(v.WithGrantOption), AttrBool(v.OnDatabase),
      AttrBool(v.OnSchema), AttrBool(v.OnSchemaObject), AttrBool(v.All),
      AttrBool(v.Future), AttrString(v.ObjectName), AttrString(v.ObjectType),
      AttrString(v.ObjectTypePlural), AttrBool(v.InSchema),
      AttrString(v.SchemaName)>>

\* the attributes String() hands to EncodeSnowflakeID, in its order
IDAttributes(v) ==
    <<AttrString(v.RoleName), AttrString(v.DatabaseName),
      AttrList(v.Privileges), AttrBool(v.AllPrivileges),
      AttrBool(v.WithGrantOption), AttrBool(v.OnDatabase),
      AttrBool(v.OnSchema), AttrBool(v.OnSchemaObject), AttrBool(v.All),
      AttrBool(v.Future), AttrString(v.ObjectType), AttrString(v.ObjectName),
      AttrString(v.ObjectTypePlural), AttrBool(v.InSchema),
      AttrString(v.SchemaName)>>

\* func (v GrantPrivilegesToDatabaseRoleID) String() string
String(v) == EncodeSnowflakeID(IDAttributes(v))

\* the value a decode yields when the identifier has fewer than 15 fields
\* (parts[i] panics with index out of range)
PanicID == [panic |-> TRUE]

\* privileges := strings.Split(parts[2], ","), [""] turned into []
DecodePrivileges(part) ==
    LET privileges == Split(part, ListDelimiter)
    IN IF Len(privileges) = 1 /\ privileges[1] = EmptyStr THEN <<>>
       ELSE privileges

\* func NewGrantPrivilegesToDatabaseRoleID(id string); parts[k] of the source
\* is parts[k + 1] here
NewGrantPrivilegesToDatabaseRoleID(s) ==
    LET parts == Split(s, IDDelimiter)
    IN IF Len(parts) < 15 THEN PanicID
       ELSE [RoleName |-> parts[1], DatabaseName |-> parts[2],
             Privileges |-> DecodePrivileges(parts[3]),
             AllPrivileges |-> (parts[4] = Str_true),
             WithGrantOption |-> (parts[5] = Str_true),
             OnDatabase |-> (parts[6] = Str_true),
             OnSchema |-> (parts[7] = Str_true),
             OnSchemaObject |-> (parts[8] = Str_true),
             All |-> (parts[9] = Str_true),
             Future |-> (parts[10] = Str_true),
             ObjectType |-> parts[11], ObjectName |-> parts[12],
             ObjectTypePlural |-> parts[13],
             InSchema |-> (parts[14] = Str_true),
             SchemaName |-> parts[15],
             InDatabase |-> FALSE]

----------------------------------------------------------------------------
\* The configuration of snowflake_grant_privileges_to_database_role.
\* A block (TypeList, MaxItems 1) is a sequence of length 0 or 1; an unset
\* string is "", an unset bool is FALSE (what d.GetOk reports as not ok).

OnSchemaBlocks ==
    [schema_name : {EmptyStr, SchemaS1}, all_schemas : BOOLEAN,
     future_schemas : BOOLEAN]

\* the all{} and future{} blocks as the user writes them
InBlocks ==
    [object_type_plural : {TypeTABLES}, in_database : BOOLEAN,
     in_schema : {EmptyStr, SchemaS1}]

Optional(S) == {<<>>} \cup {<<b>> : b \in S}

OnSchemaObjectBlocks ==
    [object_type : {EmptyStr, TypeTABLE}, object_name : {EmptyStr, ObjectT1},
     all : Optional(InBlocks), future : Optional(InBlocks)]

Configs ==
    [role_name : {RoleR1}, database_name : {DatabaseDB1},
     privileges : SUBSET Privileges, all_privileges : BOOLEAN,
     with_grant_option : BOOLEAN, on_database : BOOLEAN,
     on_schema : Optional(OnSchemaBlocks),
     on_schema_object : Optional(OnSchemaObjectBlocks)]

\* the attributes the future{} block declares: object_type_plural, in_schema
FutureBlockKeys == {"object_type_plural", "in_schema"}

\* the attributes the all{} block declares
AllBlockKeys == {"object_type_plural", "in_database", "in_schema"}

\* ConflictsWith of on_schema.0.{schema_name, all_schemas, future_schemas}
OnSchemaBlockValid(b) ==
    /\ ~(b.schema_name # EmptyStr /\ b.all_schemas)
    /\ ~(b.schema_name # EmptyStr /\ b.future_schemas)
    /\ ~(b.all_schemas /\ b.future_schemas)

\* an all{} or future{} block against the attributes its schema declares
\* and the ConflictsWith of in_database / in_schema
InBlockValid(b, keys) ==
    /\ b.in_database => "in_database" \in keys
    /\ ~(b.in_database /\ b.in_schema # EmptyStr)

\* RequiredWith and ConflictsWith of on_schema_object.0.{object_type,
\* object_name}; all and future declare no conflict with each other
OnSchemaObjectBlockValid(b) ==
    /\ (b.object_type # EmptyStr) <=> (b.object_name # EmptyStr)
    /\ b.object_type # EmptyStr => (b.all = <<>> /\ b.future = <<>>)
    /\ b.all # <<>> => InBlockValid(b.all[1], AllBlockKeys)
    /\ b.future # <<>> => InBlockValid(b.future[1], FutureBlockKeys)

\* grantPrivilegesToDatabaseRoleSchema as the host validates a configuration
\* against it before any callback runs
SchemaValidate(c) ==
    /\ ~(c.privileges # {} /\ c.all_privileges)
    /\ ~(c.all_privileges /\ c.on_database)
    /\ ~(c.on_database /\ c.on_schema # <<>>)
    /\ ~(c.on_database /\ c.on_schema_object # <<>>)
    /\ ~(c.on_schema # <<>> /\ c.on_schema_object # <<>>)
    /\ c.on_schema # <<>> => OnSchemaBlockValid(c.on_schema[1])
    /\ c.on_schema_object # <<>> =>
           OnSchemaObjectBlockValid(c.on_schema_object[1])

\* the block as schema.ResourceData holds it: only declared attributes
DeclaredIn(b, keys) ==
    [b EXCEPT !.in_database = b.in_database /\ "in_database" \in keys]

\* the on_schema_object block as schema.ResourceData holds it
DeclaredObjectBlock(b) ==
    [b EXCEPT !.all = IF b.all = <<>> THEN <<>>
                      ELSE <<DeclaredIn(b.all[1], AllBlockKeys)>>,
              !.future = IF b.future = <<>> THEN <<>>
                         ELSE <<DeclaredIn(b.future[1], FutureBlockKeys)>>]

\* the schema.ResourceData attributes of a configuration
ResourceData(c) ==
    [c EXCEPT !.on_schema_object =
        IF c.on_schema_object = <<>> THEN <<>>
        ELSE <<DeclaredObjectBlock(c.on_schema_object[1])>>]

----------------------------------------------------------------------------
\* sdk.DatabaseRoleGrantOn, built by configureDatabaseRoleGrantPrivilegeOptions.
\* A nil pointer is <<>>, a set pointer <<value>>.

\* sdk.NewAccountObjectIdentifierFromFullyQualifiedName(name)
AccountObjectIdentifier(name) == [account_object |-> name]

\* sdk.NewDatabaseObjectIdentifier(database, name)
DatabaseObjectIdentifier(database, name) ==
    [database |-> database, name |-> name]

\* sdk.NewSchemaObjectIdentifierFromFullyQualifiedName(database + "." + name)
SchemaObjectIdentifier(database, name) ==
    [schema_object |-> database \o <<".">> \o name]

\* sdk.DatabaseRoleGrantOn{}
ZeroOn == [Database |-> <<>>, Schema |-> <<>>, SchemaObject |-> <<>>]

\* &sdk.GrantOnSchema{}
ZeroGrantOnSchema ==
    [Schema |-> <<>>, AllSchemasInDatabase |-> <<>>,
     FutureSchemasInDatabase |-> <<>>]

\* &sdk.GrantOnSchemaObjectIn{}
ZeroGrantOnSchemaObjectIn ==
    [PluralObjectType |-> EmptyStr, InDatabase |-> <<>>, InSchema |-> <<>>]

\* &sdk.GrantOnSchemaObject{}
ZeroGrantOnSchemaObject == [SchemaObject |-> <<>>, All |-> <<>>, Future |-> <<>>]

\* how many of the pointers are set
CountSet(pointers) ==
    Cardinality({i \in DOMAIN pointers : pointers[i] # <<>>})

\* the grant target as the gateway accepts it: exactly one of Database,
\* Schema, SchemaObject, and within Schema and SchemaObject exactly one
\* sub-variant (named, all, future); anything else is answered with an
\* error and nothing is granted
ValidGrantOn(on) ==
    /\ CountSet(<<on.Database, on.Schema, on.SchemaObject>>) = 1
    /\ on.Schema # <<>> =>
           CountSet(<<on.Schema[1].Schema, on.Schema[1].AllSchemasInDatabase,
                      on.Schema[1].FutureSchemasInDatabase>>) = 1
    /\ on.SchemaObject # <<>> =>
           CountSet(<<on.SchemaObject[1].SchemaObject,
                      on.SchemaObject[1].All,
                      on.SchemaObject[1].Future>>) = 1

\* func setDatabaseRolePrivilegeOptions
setDatabaseRolePrivilegeOptions(privileges, allPrivileges, onDatabase, onSchema, onSchemaObject) ==
    LET zero == [AllPrivileges |-> FALSE, DatabasePrivileges |-> <<>>,
                 SchemaPrivileges |-> <<>>, SchemaObjectPrivileges |-> <<>>]
    IN IF allPrivileges THEN [zero EXCEPT !.AllPrivileges = TRUE]
       ELSE IF onDatabase THEN [zero EXCEPT !.DatabasePrivileges = privileges]
       ELSE IF onSchema THEN [zero EXCEPT !.SchemaPrivileges = privileges]
       ELSE IF onSchemaObject
            THEN [zero EXCEPT !.SchemaObjectPrivileges = privileges]
       ELSE zero

\* the on_schema branch of configureDatabaseRoleGrantPrivilegeOptions:
\* what it writes to resourceID
ConfigureOnSchemaID(b, resourceID) ==
    LET r1 == [resourceID EXCEPT !.OnSchema = TRUE]
        r2 == IF b.schema_name # EmptyStr
              THEN [r1 EXCEPT !.SchemaName = b.schema_name] ELSE r1
        r3 == IF b.all_schemas
              THEN [r2 EXCEPT !.All = TRUE, !.InDatabase = TRUE] ELSE r2
    IN IF b.future_schemas
       THEN [r3 EXCEPT !.Future = TRUE, !.InDatabase = TRUE] ELSE r3

\* the on_schema branch: the sdk.GrantOnSchema it builds
ConfigureOnSchemaOn(b, resourceID) ==
    [Schema |->
        IF b.schema_name # EmptyStr
        THEN <<DatabaseObjectIdentifier(resourceID.DatabaseName, b.schema_name)>>
        ELSE <<>>,
     AllSchemasInDatabase |->
        IF b.all_schemas
        THEN <<AccountObjectIdentifier(resourceID.DatabaseName)>> ELSE <<>>,
     FutureSchemasInDatabase |->
        IF b.future_schemas
        THEN <<AccountObjectIdentifier(resourceID.DatabaseName)>> ELSE <<>>]

\* the all{} / future{} part of the on_schema_object branch: the
\* sdk.GrantOnSchemaObjectIn it builds
ConfigureIn(b, resourceID) ==
    [PluralObjectType |-> b.object_type_plural,
     InDatabase |->
        IF b.in_database
        THEN <<AccountObjectIdentifier(resourceID.DatabaseName)>> ELSE <<>>,
     InSchema |->
        IF b.in_schema # EmptyStr
        THEN <<DatabaseObjectIdentifier(resourceID.DatabaseName, b.in_schema)>>
        ELSE <<>>]

\* the all{} / future{} part: what it writes to resourceID besides the
\* All / Future flag
ConfigureInID(b, resourceID) ==
    LET r1 == [resourceID EXCEPT !.ObjectTypePlural = b.object_type_plural]
        r2 == IF b.in_database THEN [r1 EXCEPT !.InDatabase = TRUE] ELSE r1
    IN IF b.in_schema # EmptyStr
       THEN [r2 EXCEPT !.InSchema = TRUE, !.SchemaName = b.in_schema]
       ELSE r2

\* an on_schema_object branch whose future part raises the All flag as well
ConfigureOnSchemaObjectIDFutureAsAll(b, resourceID) ==
    LET r1 == [resourceID EXCEPT !.OnSchemaObject = TRUE]
        r2 == IF b.object_type # EmptyStr
              THEN [r1 EXCEPT !.ObjectType = b.object_type] ELSE r1
        r3 == IF b.object_name # EmptyStr
              THEN [r2 EXCEPT !.ObjectName = b.object_name] ELSE r2
        r4 == IF b.all # <<>>
              THEN ConfigureInID(b.all[1], [r3 EXCEPT !.All = TRUE]) ELSE r3
    IN IF b.future # <<>>
       THEN ConfigureInID(b.future[1],
                          [r4 EXCEPT !.All = TRUE, !.Future = TRUE])
       ELSE r4

\* the on_schema_object branch: what it writes to resourceID
ConfigureOnSchemaObjectID(b, resourceID) ==
    LET r1 == [resourceID EXCEPT !.OnSchemaObject = TRUE]
        r2 == IF b.object_type # EmptyStr
              THEN [r1 EXCEPT !.ObjectType = b.object_type] ELSE r1
        r3 == IF b.object_name # EmptyStr
              THEN [r2 EXCEPT !.ObjectName = b.object_name] ELSE r2
        r4 == IF b.all # <<>>
              THEN ConfigureInID(b.all[1], [r3 EXCEPT !.All = TRUE]) ELSE r3
    IN IF b.future # <<>>
       THEN ConfigureInID(b.future[1], [r4 EXCEPT !.Future = TRUE]) ELSE r4

\* the on_schema_object branch: the sdk.GrantOnSchemaObject it builds
ConfigureOnSchemaObjectOn(b, resourceID) ==
    [SchemaObject |->
        IF b.object_type # EmptyStr
        THEN <<[ObjectType |-> b.object_type,
                Name |-> IF b.object_name # EmptyStr
                         THEN <<SchemaObjectIdentifier(resourceID.DatabaseName,
                                                       b.object_name)>>
                         ELSE <<>>]>>
        ELSE <<>>,
     All |-> IF b.all # <<>> THEN <<ConfigureIn(b.all[1], resourceID)>>
             ELSE <<>>,
     Future |-> IF b.future # <<>>
                THEN <<ConfigureIn(b.future[1], resourceID)>> ELSE <<>>]

\* a configuration with no target taken for one that grants on nothing
ConfigureNoTargetAccepted(resourceID) ==
    [err |-> "nil",
     privileges |-> setDatabaseRolePrivilegeOptions(
                        <<>>, FALSE, FALSE, FALSE, FALSE),
     on |-> ZeroOn, resourceID |-> resourceID]

\* the last statement of configureDatabaseRoleGrantPrivilegeOptions, reached
\* when no target block is populated: return nil, nil, "invalid grant options"
ConfigureNoTarget(resourceID) ==
    [err |-> "invalid grant options",
     privileges |-> setDatabaseRolePrivilegeOptions(
                        <<>>, FALSE, FALSE, FALSE, FALSE),
     on |-> ZeroOn, resourceID |-> resourceID]

\* func configureDatabaseRoleGrantPrivilegeOptions(d, privileges,
\* allPrivileges, resourceID): (privilegesToGrant, on, err) and the
\* resourceID it wrote to. The first populated branch returns.
configureDatabaseRoleGrantPrivilegeOptions(d, privileges, allPrivileges, resourceID) ==
    IF d.on_database
    THEN [err |-> "nil",
          privileges |-> setDatabaseRolePrivilegeOptions(
                             privileges, allPrivileges, TRUE, FALSE, FALSE),
          on |-> [ZeroOn EXCEPT !.Database =
                     <<AccountObjectIdentifier(resourceID.DatabaseName)>>],
          resourceID |-> [resourceID EXCEPT !.OnDatabase = TRUE]]
    ELSE IF d.on_schema # <<>>
    THEN [err |-> "nil",
          privileges |-> setDatabaseRolePrivilegeOptions(
                             privileges, allPrivileges, FALSE, TRUE, FALSE),
          on |-> [ZeroOn EXCEPT !.Schema =
                     <<ConfigureOnSchemaOn(d.on_schema[1], resourceID)>>],
          resourceID |-> ConfigureOnSchemaID(d.on_schema[1], resourceID)]
    ELSE IF d.on_schema_object # <<>>
    THEN [err |-> "nil",
          privileges |-> setDatabaseRolePrivilegeOptions(
                             privileges, allPrivileges, FALSE, FALSE, TRUE),
          on |-> [ZeroOn EXCEPT !.SchemaObject =
                     <<ConfigureOnSchemaObjectOn(d.on_schema_object[1],
                                                 resourceID)>>],
          resourceID |->
              ConfigureOnSchemaObjectID(d.on_schema_object[1], resourceID)]
    ELSE ConfigureNoTarget(resourceID)

----------------------------------------------------------------------------
\* The remote system as the privilege-grant callbacks see it

\* the privileges named by an sdk.DatabaseRoleGrantPrivileges; ALL PRIVILEGES
\* stands for every privilege the target has
GrantedPrivileges(p) ==
    IF p.AllPrivileges THEN Privileges
    ELSE ToSet(p.DatabasePrivileges) \cup ToSet(p.SchemaPrivileges)
         \cup ToSet(p.SchemaObjectPrivileges)

\* the statement client.Grants.GrantPrivilegesToDatabaseRole sends
GrantStatement(privileges, on, roleID, withGrantOption) ==
    [verb |-> "GRANT", privileges |-> privileges, on |-> <<on>>,
     role |-> <<roleID>>, withGrantOption |-> withGrantOption,
     show |-> <<>>]

\* the statement client.Grants.RevokePrivilegesFromDatabaseRole sends
RevokeStatement(privileges, on, roleID) ==
    [verb |-> "REVOKE", privileges |-> privileges, on |-> <<on>>,
     role |-> <<roleID>>, withGrantOption |-> FALSE, show |-> <<>>]

\* the query client.Grants.Show sends
ShowStatement(opts) ==
    [verb |-> "SHOW",
     privileges |-> setDatabaseRolePrivilegeOptions(
                        <<>>, FALSE, FALSE, FALSE, FALSE),
     on |-> <<>>, role |-> <<>>, withGrantOption |-> FALSE, show |-> <<opts>>]

\* the remote grants of the role after a GRANT that succeeded
RemoteAfterGrant(rem, st) ==
    {g \in rem : g.privilege \notin GrantedPrivileges(st.privileges)}
    \cup {[privilege |-> p, grantOption |-> st.withGrantOption] :
              p \in GrantedPrivileges(st.privileges)}

\* the remote grants of the role after a REVOKE that succeeded
RemoteAfterRevoke(rem, st) ==
    {g \in rem : g.privilege \notin GrantedPrivileges(st.privileges)}

\* sdk.ObjectTypeDatabase, sdk.ObjectTypeSchema
ObjectTypeDatabase == TypeDATABASE
ObjectTypeSchema == TypeSCHEMA

\* sdk.PluralObjectType(p).Singular(): the plural without its final S
Singular(p) ==
    IF Len(p) > 0 /\ p[Len(p)] = "S" THEN SubSeq(p, 1, Len(p) - 1) ELSE p

\* the actor the remote system records as grantor of a current grant
GrantorACCOUNTADMIN == <<"A", "D", "M", "I", "N">>

\* a role other than the resource's
RoleOTHER == <<"R", "2">>

\* the rows SHOW GRANTS returns for the role's grants on the target: a
\* current grant carries granted_on and granted_by, a future grant grant_on
OwnRows(rem, roleName, objectType, future) ==
    {[Privilege |-> g.privilege, GrantOption |-> g.grantOption,
      GranteeName |-> roleName,
      GrantedBy |-> IF future THEN EmptyStr ELSE GrantorACCOUNTADMIN,
      GrantedOn |-> IF future THEN EmptyStr ELSE objectType,
      GrantOn |-> IF future THEN objectType ELSE EmptyStr] : g \in rem}

\* the object type the remote system records for the configured target
TargetObjectType(d) ==
    IF d.on_database THEN TypeDATABASE
    ELSE IF d.on_schema # <<>> THEN TypeSCHEMA
    ELSE IF d.on_schema_object = <<>> THEN EmptyStr
    ELSE IF d.on_schema_object[1].object_type # EmptyStr
         THEN d.on_schema_object[1].object_type
    ELSE IF d.on_schema_object[1].future # <<>>
         THEN Singular(d.on_schema_object[1].future[1].object_type_plural)
    ELSE IF d.on_schema_object[1].all # <<>>
         THEN Singular(d.on_schema_object[1].all[1].object_type_plural)
    ELSE EmptyStr

\* whether the configured target is a future grant
TargetIsFuture(d) ==
    \/ d.on_schema # <<>> /\ d.on_schema[1].future_schemas
    \/ d.on_schema_object # <<>> /\ d.on_schema_object[1].future # <<>>

\* what client.Grants.Show returns: an error, or rows
ShowError == [ok |-> FALSE, rows |-> {}]
ShowRows(rows) == [ok |-> TRUE, rows |-> rows]

\* the answer of the remote system that holds the grants rem for the role
ShowResponse(d, rem, showOK) ==
    IF showOK
    THEN ShowRows(OwnRows(rem, d.role_name, TargetObjectType(d),
                          TargetIsFuture(d)))
    ELSE ShowError

----------------------------------------------------------------------------
\* ReadGrantPrivilegesToDatabaseRole

\* sdk.ShowGrantOptions{}
ZeroShowGrantOptions == [Future |-> FALSE, On |-> <<>>, In |-> <<>>]

\* sdk.ShowGrantOptions{On: &sdk.ShowGrantsOn{Object: {objectType, name}}}
ShowOn(objectType, name) ==
    [ZeroShowGrantOptions EXCEPT
        !.On = <<[ObjectType |-> objectType, Name |-> name]>>]

\* sdk.ShowGrantOptions{Future: true, In: {Database: database}}
ShowFutureInDatabase(database) ==
    [ZeroShowGrantOptions EXCEPT
        !.Future = TRUE,
        !.In = <<[Database |-> <<AccountObjectIdentifier(database)>>,
                  Schema |-> <<>>]>>]

\* sdk.ShowGrantOptions{Future: true, In: {Schema: database.schema}}
ShowFutureInSchema(database, schemaName) ==
    [ZeroShowGrantOptions EXCEPT
        !.Future = TRUE,
        !.In = <<[Database |-> <<>>,
                  Schema |-> <<DatabaseObjectIdentifier(database,
                                                        schemaName)>>]>>]

\* the state of Read's locals: returned tells an early return nil
ReadStart == [returned |-> FALSE, grantOn |-> EmptyStr,
              opts |-> ZeroShowGrantOptions]

\* if resourceID.OnDatabase { ... }
ReadOnDatabase(s, resourceID) ==
    IF s.returned \/ ~resourceID.OnDatabase THEN s
    ELSE [s EXCEPT !.grantOn = ObjectTypeDatabase,
                   !.opts = ShowOn(ObjectTypeDatabase,
                               AccountObjectIdentifier(resourceID.DatabaseName))]

\* if resourceID.OnSchema { ... }
ReadOnSchema(s, resourceID) ==
    IF s.returned \/ ~resourceID.OnSchema THEN s
    ELSE LET s1 == [s EXCEPT !.grantOn = ObjectTypeSchema]
             s2 == IF resourceID.SchemaName # EmptyStr
                   THEN [s1 EXCEPT !.opts =
                            ShowOn(ObjectTypeSchema,
                                   DatabaseObjectIdentifier(
                                       resourceID.DatabaseName,
                                       resourceID.SchemaName))]
                   ELSE s1
         IN IF resourceID.All THEN [s2 EXCEPT !.returned = TRUE]
            ELSE IF resourceID.Future
            THEN [s2 EXCEPT !.opts =
                     ShowFutureInDatabase(resourceID.DatabaseName)]
            ELSE s2

\* an OnSchemaObject branch that goes on to query for an All target
ReadOnSchemaObjectQueriesAll(s, resourceID) ==
    IF s.returned \/ ~resourceID.OnSchemaObject THEN s
    ELSE IF resourceID.Future
    THEN [s EXCEPT !.grantOn = Singular(resourceID.ObjectTypePlural),
                   !.opts = ShowFutureInDatabase(resourceID.DatabaseName)]
    ELSE IF resourceID.ObjectName # EmptyStr
    THEN [s EXCEPT !.grantOn = resourceID.ObjectType,
                   !.opts = ShowOn(resourceID.ObjectType,
                                   SchemaObjectIdentifier(
                                       resourceID.DatabaseName,
                                       resourceID.ObjectName))]
    ELSE s

\* if resourceID.OnSchemaObject { ... }: the in-schema options are
\* overwritten by the in-database options that follow them
ReadOnSchemaObject(s, resourceID) ==
    IF s.returned \/ ~resourceID.OnSchemaObject THEN s
    ELSE LET s1 == IF resourceID.ObjectName # EmptyStr
                   THEN [s EXCEPT !.grantOn = resourceID.ObjectType,
                                  !.opts = ShowOn(resourceID.ObjectType,
                                      SchemaObjectIdentifier(
                                          resourceID.DatabaseName,
                                          resourceID.ObjectName))]
                   ELSE s
         IN IF resourceID.All THEN [s1 EXCEPT !.returned = TRUE]
            ELSE IF resourceID.Future
            THEN LET s2 == [s1 EXCEPT !.grantOn =
                               Singular(resourceID.ObjectTypePlural)]
                     s3 == IF resourceID.InSchema
                           THEN [s2 EXCEPT !.opts =
                                    ShowFutureInSchema(
                                        resourceID.DatabaseName,
                                        resourceID.SchemaName)]
                           ELSE s2
                 IN [s3 EXCEPT !.opts =
                        ShowFutureInDatabase(resourceID.DatabaseName)]
            ELSE s1

\* the locals of ReadGrantPrivilegesToDatabaseRole when it reaches
\* readDatabaseRoleGrantPrivileges, or returned = TRUE when it returns before
ReadPlan(resourceID) ==
    IF resourceID.AllPrivileges
    THEN [ReadStart EXCEPT !.returned = TRUE]
    ELSE ReadOnSchemaObject(
             ReadOnSchema(ReadOnDatabase(ReadStart, resourceID), resourceID),
             resourceID)

\* the test of a read that reports every privilege the role holds
GrantMatchesAnyPrivilege(grant, grantedOn, ident, withGrantOption, roleName) ==
    /\ grant.GrantOption = withGrantOption
    /\ grant.GranteeName = roleName
    /\ ~(~ident.Future /\ grant.GrantedBy = EmptyStr)
    /\ (grantedOn = grant.GrantedOn \/ grantedOn = grant.GrantOn)

\* the test of a read that does not compare object types
GrantMatchesAnyObjectType(grant, grantedOn, ident, withGrantOption, roleName) ==
    /\ Contains(ident.Privileges, grant.Privilege)
    /\ grant.GrantOption = withGrantOption
    /\ grant.GranteeName = roleName
    /\ ~(~ident.Future /\ grant.GrantedBy = EmptyStr)

\* the test of readDatabaseRoleGrantPrivileges on one row of the response
GrantMatches(grant, grantedOn, ident, withGrantOption, roleName) ==
    /\ Contains(ident.Privileges, grant.Privilege)
    /\ grant.GrantOption = withGrantOption
    /\ grant.GranteeName = roleName
    /\ ~(~ident.Future /\ grant.GrantedBy = EmptyStr)
    /\ (grantedOn = grant.GrantedOn \/ grantedOn = grant.GrantOn)

\* func readDatabaseRoleGrantPrivileges: the privileges it hands to
\* d.Set("privileges", ...), a TypeSet
readDatabaseRoleGrantPrivileges(grantedOn, ident, d, grants) ==
    {grant.Privilege : grant \in
        {g \in grants : GrantMatches(g, grantedOn, ident,
                                     d.with_grant_option, d.role_name)}}

\* func ReadGrantPrivilegesToDatabaseRole(d, meta): the attributes, the
\* statements it sent and the error it returned. ident is d.Id(), response
\* what client.Grants.Show answers if it is asked.
ReadGrantPrivilegesToDatabaseRole(d, ident, response) ==
    LET resourceID == NewGrantPrivilegesToDatabaseRoleID(ident)
        plan == ReadPlan(resourceID)
    IN IF resourceID = PanicID
       THEN [attrs |-> d, stmts |-> <<>>, err |-> "panic"]
       ELSE IF plan.returned
       THEN [attrs |-> d, stmts |-> <<>>, err |-> "nil"]
       ELSE IF ~response.ok
       THEN [attrs |-> d, stmts |-> <<ShowStatement(plan.opts)>>,
             err |-> "error retrieving grants for database role"]
       ELSE [attrs |-> [d EXCEPT !.privileges =
                          readDatabaseRoleGrantPrivileges(
                              plan.grantOn, resourceID, d, response.rows)],
             stmts |-> <<ShowStatement(plan.opts)>>, err |-> "nil"]

----------------------------------------------------------------------------
\* CreateGrantPrivilegesToDatabaseRole

\* the resourceID Create has filled in before it calls
\* configureDatabaseRoleGrantPrivilegeOptions
CreateID(d) ==
    [ZeroID EXCEPT !.Privileges = expandStringList(d.privileges),
                   !.AllPrivileges = d.all_privileges,
                   !.DatabaseName = d.database_name]

\* what Create obtains from configureDatabaseRoleGrantPrivilegeOptions
CreateConfigure(d) ==
    configureDatabaseRoleGrantPrivilegeOptions(
        d, expandStringList(d.privileges), d.all_privileges, CreateID(d))

\* the resourceID Create hands to String(): what configure wrote, then
\* WithGrantOption and RoleName
CreateResourceID(d) ==
    [CreateConfigure(d).resourceID EXCEPT
        !.WithGrantOption = d.with_grant_option,
        !.RoleName = d.role_name]

\* func CreateGrantPrivilegesToDatabaseRole(d, meta); prior is the state the
\* host keeps when Create fails without an id
CreateGrantPrivilegesToDatabaseRole(d, prior, rem, grantOK, showOK) ==
    LET conf == CreateConfigure(d)
        resourceID == CreateResourceID(d)
        roleID == DatabaseObjectIdentifier(d.database_name, d.role_name)
        grant == GrantStatement(conf.privileges, conf.on, roleID,
                                d.with_grant_option)
        granted == RemoteAfterGrant(rem, grant)
        read == ReadGrantPrivilegesToDatabaseRole(
                    d, String(resourceID), ShowResponse(d, granted, showOK))
    IN IF conf.err # "nil"
       THEN [attrs |-> prior, id |-> EmptyStr, remote |-> rem,
             stmts |-> <<>>,
             err |-> "error configuring database role grant privilege options"]
       ELSE IF ~ValidGrantOn(conf.on)
       THEN [attrs |-> prior, id |-> EmptyStr, remote |-> rem,
             stmts |-> <<>>,
             err |-> "error granting privileges to database role"]
       ELSE IF ~grantOK
       THEN [attrs |-> prior, id |-> EmptyStr, remote |-> rem,
             stmts |-> <<grant>>,
             err |-> "error granting privileges to database role"]
       ELSE [attrs |-> read.attrs, id |-> String(resourceID),
             remote |-> granted, stmts |-> <<grant>> \o read.stmts,
             err |-> read.err]

----------------------------------------------------------------------------
\* UpdateGrantPrivilegesToDatabaseRole

\* removePrivileges: the old privileges that are not new ones, in old's order
removePrivileges(oldPrivileges, newPrivileges) ==
    SelectSeq(oldPrivileges, LAMBDA p : ~Contains(newPrivileges, p))

\* every new privilege taken for an added one
addEveryNewPrivilege(oldPrivileges, newPrivileges) == newPrivileges

\* addPrivileges: the new privileges that are not old ones, in new's order
addPrivileges(oldPrivileges, newPrivileges) ==
    SelectSeq(newPrivileges, LAMBDA p : ~Contains(oldPrivileges, p))

\* the statements of an update that revokes before it grants
UpdateStatementsRevokeFirst(d, oldPrivileges, newPrivileges) ==
    LET add == SelectSeq(newPrivileges,
                         LAMBDA p : ~Contains(oldPrivileges, p))
        remove == SelectSeq(oldPrivileges,
                            LAMBDA p : ~Contains(newPrivileges, p))
        roleID == DatabaseObjectIdentifier(d.database_name, d.role_name)
        confAdd == configureDatabaseRoleGrantPrivilegeOptions(
                       d, add, FALSE, ZeroID)
        confRemove == configureDatabaseRoleGrantPrivilegeOptions(
                          d, remove, FALSE, ZeroID)
    IN (IF Len(remove) > 0
        THEN <<[conf |-> confRemove,
                st |-> RevokeStatement(confRemove.privileges, confRemove.on,
                                       roleID)]>>
        ELSE <<>>)
       \o
       (IF Len(add) > 0
        THEN <<[conf |-> confAdd,
                st |-> GrantStatement(confAdd.privileges, confAdd.on,
                                      roleID, FALSE)]>>
        ELSE <<>>)

\* the statements of the d.HasChange("privileges") block, in the order the
\* callback sends them when none fails: "first add new privileges", "then
\* remove old privileges"
UpdateStatements(d, oldPrivileges, newPrivileges) ==
    LET add == addPrivileges(oldPrivileges, newPrivileges)
        remove == removePrivileges(oldPrivileges, newPrivileges)
        roleID == DatabaseObjectIdentifier(d.database_name, d.role_name)
        confAdd == configureDatabaseRoleGrantPrivilegeOptions(
                       d, add, FALSE, ZeroID)
        confRemove == configureDatabaseRoleGrantPrivilegeOptions(
                          d, remove, FALSE, ZeroID)
    IN (IF Len(add) > 0
        THEN <<[conf |-> confAdd,
                st |-> GrantStatement(confAdd.privileges, confAdd.on,
                                      roleID, FALSE)]>>
        ELSE <<>>)
       \o
       (IF Len(remove) > 0
        THEN <<[conf |-> confRemove,
                st |-> RevokeStatement(confRemove.privileges, confRemove.on,
                                       roleID)]>>
        ELSE <<>>)

\* the remote grants after one statement that succeeded
RemoteAfter(rem, st) ==
    IF st.verb = "GRANT" THEN RemoteAfterGrant(rem, st)
    ELSE IF st.verb = "REVOKE" THEN RemoteAfterRevoke(rem, st)
    ELSE rem

RECURSIVE RunStatements(_, _, _, _)
\* the statements of a callback sent one after the other: the k-th one sent
\* fails when k = failAt (0: none fails); a configuration error or a failed
\* statement returns at once
RunStatements(steps, rem, failAt, sent) ==
    IF Len(steps) = 0
    THEN [remote |-> rem, stmts |-> sent, err |-> "nil"]
    ELSE IF steps[1].conf.err # "nil"
    THEN [remote |-> rem, stmts |-> sent,
          err |-> "error configuring database role grant privilege options"]
    ELSE IF Len(sent) + 1 = failAt
    THEN [remote |-> rem, stmts |-> Append(sent, steps[1].st),
          err |-> IF steps[1].st.verb = "GRANT"
                  THEN "error granting privileges to database role"
                  ELSE "error revoking privileges from database role"]
    ELSE RunStatements(Tail(steps), RemoteAfter(rem, steps[1].st), failAt,
                       Append(sent, steps[1].st))

\* func UpdateGrantPrivilegesToDatabaseRole(d, meta): d holds the planned
\* attributes, oldSet the privileges of the prior state
UpdateGrantPrivilegesToDatabaseRole(d, oldSet, ident, rem, failAt, showOK) ==
    LET oldPrivileges == expandStringList(oldSet)
        newPrivileges == expandStringList(d.privileges)
        run == IF oldSet # d.privileges
               THEN RunStatements(
                        UpdateStatements(d, oldPrivileges, newPrivileges),
                        rem, failAt, <<>>)
               ELSE [remote |-> rem, stmts |-> <<>>, err |-> "nil"]
        decoded == NewGrantPrivilegesToDatabaseRoleID(ident)
        newID == IF oldSet # d.privileges
                 THEN String([decoded EXCEPT !.Privileges = newPrivileges])
                 ELSE ident
        read == ReadGrantPrivilegesToDatabaseRole(
                    d, newID, ShowResponse(d, run.remote, showOK))
    IN IF run.err # "nil"
       THEN [attrs |-> d, id |-> ident, remote |-> run.remote,
             stmts |-> run.stmts, err |-> run.err]
       ELSE [attrs |-> read.attrs, id |-> newID, remote |-> run.remote,
             stmts |-> run.stmts \o read.stmts, err |-> read.err]

----------------------------------------------------------------------------
\* DeleteGrantPrivilegesToDatabaseRole

\* func DeleteGrantPrivilegesToDatabaseRole(d, meta)
DeleteGrantPrivilegesToDatabaseRole(d, ident, rem, revokeOK) ==
    LET conf == configureDatabaseRoleGrantPrivilegeOptions(
                    d, expandStringList(d.privileges), d.all_privileges,
                    ZeroID)
        roleID == DatabaseObjectIdentifier(d.database_name, d.role_name)
        revoke == RevokeStatement(conf.privileges, conf.on, roleID)
    IN IF conf.err # "nil"
       THEN [attrs |-> d, id |-> ident, remote |-> rem, stmts |-> <<>>,
             err |-> "error configuring database role grant privilege options"]
       ELSE IF ~revokeOK
       THEN [attrs |-> d, id |-> ident, remote |-> rem,
             stmts |-> <<revoke>>,
             err |-> "error revoking privileges from database role"]
       ELSE [attrs |-> d, id |-> EmptyStr,
             remote |-> RemoteAfterRevoke(rem, revoke),
             stmts |-> <<revoke>>, err |-> "nil"]

----------------------------------------------------------------------------
\* GrantPrivilegesToDatabaseRole().Importer

\* a schema.ResourceData with no attribute set
ZeroAttrs ==
    [role_name |-> EmptyStr, database_name |-> EmptyStr, privileges |-> {},
     all_privileges |-> FALSE, with_grant_option |-> FALSE,
     on_database |-> FALSE, on_schema |-> <<>>, on_schema_object |-> <<>>]

\* an on_schema element with no attribute set
ZeroOnSchemaBlock ==
    [schema_name |-> EmptyStr, all_schemas |-> FALSE, future_schemas |-> FALSE]

\* an on_schema_object element with no attribute set
ZeroOnSchemaObjectBlock ==
    [object_type |-> EmptyStr, object_name |-> EmptyStr, all |-> <<>>,
     future |-> <<>>]

\* the onSchema list the importer builds
ImportOnSchema(resourceID) ==
    (IF resourceID.SchemaName # EmptyStr
     THEN <<[ZeroOnSchemaBlock EXCEPT !.schema_name = resourceID.SchemaName]>>
     ELSE <<>>)
    \o (IF resourceID.All
        THEN <<[ZeroOnSchemaBlock EXCEPT !.all_schemas = TRUE]>> ELSE <<>>)
    \o (IF resourceID.Future
        THEN <<[ZeroOnSchemaBlock EXCEPT !.future_schemas = TRUE]>> ELSE <<>>)

\* the map m the importer builds for an all{} or future{} element
ImportIn(resourceID) ==
    [object_type_plural |-> resourceID.ObjectTypePlural,
     in_schema |-> IF resourceID.InSchema THEN resourceID.SchemaName
                   ELSE EmptyStr,
     in_database |-> resourceID.InDatabase]

\* the onSchemaObject list the importer builds
ImportOnSchemaObject(resourceID) ==
    (IF resourceID.ObjectName # EmptyStr
     THEN <<[ZeroOnSchemaObjectBlock EXCEPT
                !.object_name = resourceID.ObjectName,
                !.object_type = resourceID.ObjectType]>>
     ELSE <<>>)
    \o (IF resourceID.All
        THEN <<[ZeroOnSchemaObjectBlock EXCEPT
                   !.all = <<ImportIn(resourceID)>>]>>
        ELSE <<>>)
    \o (IF resourceID.Future
        THEN <<[ZeroOnSchemaObjectBlock EXCEPT
                   !.future = <<ImportIn(resourceID)>>]>>
        ELSE <<>>)

\* whether d.Set("on_schema_object", onSchemaObject) fails: the map of a
\* future element carries the key in_database, which the future{} block
\* does not declare
ImportSetFails(resourceID) ==
    /\ resourceID.OnSchemaObject
    /\ resourceID.Future
    /\ "in_database" \notin FutureBlockKeys

\* Importer.StateContext: the attributes it sets from d.Id() and its error
Importer(ident) ==
    LET resourceID == NewGrantPrivilegesToDatabaseRoleID(ident)
        d1 == [ZeroAttrs EXCEPT
                  !.role_name = resourceID.RoleName,
                  !.database_name = resourceID.DatabaseName,
                  !.privileges = ToSet(resourceID.Privileges),
                  !.all_privileges = resourceID.AllPrivileges,
                  !.with_grant_option = resourceID.WithGrantOption,
                  !.on_database = resourceID.OnDatabase]
        d2 == IF resourceID.OnSchema
              THEN [d1 EXCEPT !.on_schema = ImportOnSchema(resourceID)]
              ELSE d1
    IN IF resourceID = PanicID THEN [attrs |-> ZeroAttrs, err |-> "panic"]
       ELSE IF ImportSetFails(resourceID)
       THEN [attrs |-> d2, err |-> "Invalid address to set"]
       ELSE IF resourceID.OnSchemaObject
       THEN [attrs |-> [d2 EXCEPT !.on_schema_object =
                           ImportOnSchemaObject(resourceID)],
             err |-> "nil"]
       ELSE [attrs |-> d2, err |-> "nil"]

\* terraform import: the importer, then the Read the host runs on what it
\* returned
ImportGrantPrivilegesToDatabaseRole(ident, response) ==
    LET imp == Importer(ident)
        read == ReadGrantPrivilegesToDatabaseRole(imp.attrs, ident, response)
    IN IF imp.err # "nil"
       THEN [attrs |-> imp.attrs, stmts |-> <<>>, err |-> imp.err]
       ELSE read

----------------------------------------------------------------------------
\* The privilege-grant resource: one action per callback

\* the error of a configuration the host rejects against the schema
ErrValidate == "configuration rejected by schema validation"

\* the rows a callback saw, if it sent SHOW GRANTS and got an answer
Shown(r, response) ==
    IF \E i \in DOMAIN r.stmts : r.stmts[i].verb = "SHOW"
    THEN response.rows ELSE {}

IDIdle ==
    /\ idIn = ZeroID /\ idStr = EmptyStr /\ idOut = ZeroID /\ idPc = "idle"

DiffIdle == diffOld = {} /\ diffNew = {} /\ delta = <<>>

NoExecutable == [databaseName |-> EmptyStr, roleName |-> EmptyStr,
                 granteeType |-> EmptyStr, grantee |-> EmptyStr]

SQLIdle ==
    /\ sqlIn = [database |-> EmptyStr, role |-> EmptyStr,
                grantee |-> EmptyStr, method |-> "none"]
    /\ sqlExe = NoExecutable /\ sqlGrant = EmptyStr /\ sqlRevoke = EmptyStr

GPIdle ==
    /\ cfg = ZeroAttrs /\ attrs = ZeroAttrs /\ id = EmptyStr /\ remote = {}
    /\ stmts = <<>> /\ err = "nil" /\ op = "idle" /\ shown = {}
    /\ origin = ZeroAttrs

\* a resource that is planned and not yet created
GPInit ==
    /\ attrs = ZeroAttrs
    /\ id = EmptyStr
    /\ remote = {}
    /\ stmts = <<>>
    /\ err = "nil"
    /\ op = "none"
    /\ shown = {}
    /\ origin = ZeroAttrs

\* terraform apply of a new resource: schema validation, then Create
GPCreate ==
    /\ op = "none"
    /\ IF ~SchemaValidate(cfg)
       THEN /\ err' = ErrValidate
            /\ stmts' = <<>>
            /\ shown' = {}
            /\ UNCHANGED <<attrs, id, remote>>
       ELSE \E grantOK \in BOOLEAN, showOK \in BOOLEAN :
            \E r \in {CreateGrantPrivilegesToDatabaseRole(
                          ResourceData(cfg), attrs, remote, grantOK, showOK)} :
               /\ attrs' = r.attrs
               /\ id' = r.id
               /\ remote' = r.remote
               /\ stmts' = r.stmts
               /\ err' = r.err
               /\ shown' = Shown(r, ShowResponse(ResourceData(cfg), r.remote,
                                                 showOK))
    /\ op' = "create"
    /\ origin' = ZeroAttrs
    /\ UNCHANGED cfg

\* terraform refresh against the remote system's own answer
GPRead ==
    /\ id # EmptyStr
    /\ \E showOK \in BOOLEAN :
        \E response \in {ShowResponse(attrs, remote, showOK)} :
        \E r \in {ReadGrantPrivilegesToDatabaseRole(attrs, id, response)} :
           /\ attrs' = r.attrs
           /\ stmts' = r.stmts
           /\ err' = r.err
           /\ shown' = Shown(r, response)
    /\ op' = "read"
    /\ origin' = ZeroAttrs
    /\ UNCHANGED <<cfg, id, remote>>

\* terraform apply of a changed privileges attribute (every other attribute
\* but all_privileges is ForceNew). When the callback fails the host keeps
\* the planned attributes and the id the callback left.
GPUpdate ==
    /\ id # EmptyStr
    /\ \E new \in SUBSET LifecyclePrivileges, showOK \in BOOLEAN :
       \E failAt \in 0..Len(UpdateStatements(
                              [attrs EXCEPT !.privileges = new],
                              expandStringList(attrs.privileges),
                              expandStringList(new))) :
        /\ SchemaValidate([cfg EXCEPT !.privileges = new])
        /\ cfg' = [cfg EXCEPT !.privileges = new]
        /\ \E r \in {UpdateGrantPrivilegesToDatabaseRole(
                         [attrs EXCEPT !.privileges = new], attrs.privileges,
                         id, remote, failAt, showOK)} :
              /\ attrs' = r.attrs
              /\ id' = r.id
              /\ remote' = r.remote
              /\ stmts' = r.stmts
              /\ err' = r.err
              /\ shown' = Shown(r, ShowResponse(
                                       [attrs EXCEPT !.privileges = new],
                                       r.remote, showOK))
    /\ op' = "update"
    /\ origin' = ZeroAttrs

\* terraform destroy
GPDelete ==
    /\ id # EmptyStr
    /\ \E revokeOK \in BOOLEAN :
        \E r \in {DeleteGrantPrivilegesToDatabaseRole(
                      attrs, id, remote, revokeOK)} :
           /\ attrs' = r.attrs
           /\ id' = r.id
           /\ remote' = r.remote
           /\ stmts' = r.stmts
           /\ err' = r.err
    /\ op' = "delete"
    /\ shown' = {}
    /\ origin' = ZeroAttrs
    /\ UNCHANGED cfg

\* terraform import of the identifier a create, read or update left, into a
\* fresh schema.ResourceData
GPImport ==
    /\ id # EmptyStr
    /\ op \in {"create", "read", "update"}
    /\ err = "nil"
    /\ \E showOK \in BOOLEAN :
        \E response \in {ShowResponse(attrs, remote, showOK)} :
        \E r \in {ImportGrantPrivilegesToDatabaseRole(id, response)} :
           /\ attrs' = r.attrs
           /\ stmts' = r.stmts
           /\ err' = r.err
           /\ shown' = Shown(r, response)
    /\ origin' = attrs
    /\ op' = "import"
    /\ UNCHANGED <<cfg, id, remote>>

----------------------------------------------------------------------------
\* snowflake_database_role_grants: the grants of one database role to
\* account roles and users

\* the grantees the configurations choose from
GranteeG1 == <<"G", "1">>
GranteeG2 == <<"G", "2">>
UserU1 == <<"U", "1">>
\* a login name that is not the name of its user
LoginL1 == <<"L", "1">>

RoleGrantees == {GranteeG1, GranteeG2}
UserGrantees == {UserU1}

\* the order schema.Set.List() returns grantees in
GranteeOrder == <<GranteeG1, GranteeG2, UserU1>>

\* expandStringList(set.List()) for a set of grantees
expandGranteeList(set) ==
    SelectSeq(GranteeOrder, LAMBDA g : g \in set)

\* strings.TrimPrefix(s, `"`) then strings.TrimSuffix(s, `"`)
TrimQuotes(s) ==
    LET t == IF Len(s) > 0 /\ s[1] = "\"" THEN Tail(s) ELSE s
    IN IF Len(t) > 0 /\ t[Len(t)] = "\"" THEN SubSeq(t, 1, Len(t) - 1)
       ELSE t

\* the configurations of the resource; enable_multiple_grants is declared
\* and read by no callback
RGConfigs ==
    [database_name : {DatabaseDB1}, role_name : {RoleR1},
     roles : SUBSET RoleGrantees, users : SUBSET UserGrantees]

\* a schema.ResourceData with no attribute set
RGZeroAttrs ==
    [database_name |-> EmptyStr, role_name |-> EmptyStr, roles |-> {},
     users |-> {}]

\* the number of the remote error "does not exist or not authorized"
ErrNotExistOrNotAuthorized == 2003

\* a nil error
Nil == [type |-> "nil", Number |-> 0, msg |-> "nil"]

\* a *gosnowflake.SnowflakeError with the given number
SnowflakeError(n) ==
    [type |-> "SnowflakeError", Number |-> n, msg |-> "SQL compilation error"]

\* an error of any other type
PlainError(m) == [type |-> "error", Number |-> 0, msg |-> m]

\* sql.ErrNoRows
ErrNoRows == PlainError("sql: no rows in result set")

\* a nil pointer dereference
Panic == [type |-> "panic", Number |-> 0, msg |-> "nil pointer dereference"]

\* the errors a statement may end with for a reason the model does not
\* follow: not authorized, another compilation error
FaultErrors ==
    {SnowflakeError(ErrNotExistOrNotAuthorized),
     SnowflakeError(ErrNotExistOrNotAuthorized + 1)}

\* no statement is made to fail
NoFault == [to |-> "NONE", grantee |-> EmptyStr, error |-> Nil]

\* the statement on one grantee is made to fail
Faults ==
    {NoFault}
    \cup [to : {"ROLE"}, grantee : RoleGrantees, error : FaultErrors]
    \cup [to : {"USER"}, grantee : UserGrantees, error : FaultErrors]

\* whether the remote system holds the grantee
Exists(world, to, grantee) ==
    IF to = "ROLE" THEN grantee \in world.roles
    ELSE \E u \in world.users : u.name = grantee

\* snowflake.Exec of a GRANT or REVOKE DATABASE ROLE: the remote system
\* answers a missing database role or grantee with error 2003
Exec(world, to, grantee, fault) ==
    IF fault.to = to /\ fault.grantee = grantee THEN fault.error
    ELSE IF ~world.parent \/ ~Exists(world, to, grantee)
    THEN SnowflakeError(ErrNotExistOrNotAuthorized)
    ELSE Nil

\* snowflake.ListRoles(db, pattern): the roles named pattern; a failed
\* lookup returns no roles and an error
ListRoles(world, pattern, lookupOK) ==
    IF lookupOK /\ pattern \in world.roles
    THEN <<[Name |-> pattern]>> ELSE <<>>

\* snowflake.ListUsers(pattern, db): the users named pattern; a failed
\* lookup returns no users and an error
ListUsers(world, pattern, lookupOK) ==
    IF lookupOK
    THEN SelectSeq(<<[Name |-> pattern, LoginName |-> pattern],
                     [Name |-> pattern, LoginName |-> LoginL1]>>,
                   LAMBDA u : [name |-> u.Name, login |-> u.LoginName]
                                  \in world.users)
    ELSE <<>>

\* one statement a callback sent: what it was, whether the remote system
\* held the grantee then, how it answered, whether an existence lookup
\* followed, what the helper returned
Sent(world, verb, to, grantee, result, lookup, e) ==
    [verb |-> verb, to |-> to, grantee |-> grantee,
     exists |-> Exists(world, to, grantee), result |-> result,
     lookup |-> lookup, err |-> e]

\* the grants of the database role after one GRANT or REVOKE that succeeded
WorldAfter(world, verb, to, grantee) ==
    [world EXCEPT !.grants =
        IF verb = "GRANT"
        THEN world.grants \cup {[to |-> to, name |-> grantee]}
        ELSE world.grants \ {[to |-> to, name |-> grantee]}]

\* func grantDatabaseRoleToRole(db, database, role1, role2)
grantDatabaseRoleToRole(world, role2, fault, lookupOK) ==
    LET e == Exec(world, "ROLE", role2, fault)
    IN [st |-> Sent(world, "GRANT", "ROLE", role2, e, "none", e), err |-> e,
        world |-> IF e = Nil THEN WorldAfter(world, "GRANT", "ROLE", role2)
                  ELSE world]

\* func grantDatabaseRoleToUser(db, database, role1, user)
grantDatabaseRoleToUser(world, user, fault, lookupOK) ==
    LET e == Exec(world, "USER", user, fault)
    IN [st |-> Sent(world, "GRANT", "USER", user, e, "none", e), err |-> e,
        world |-> IF e = Nil THEN WorldAfter(world, "GRANT", "USER", user)
                  ELSE world]

\* a revoke that returns every error of the REVOKE statement
revokeDatabaseRoleFromRoleStrict(world, role2, fault, lookupOK) ==
    LET e == Exec(world, "ROLE", role2, fault)
    IN [st |-> Sent(world, "REVOKE", "ROLE", role2, e, "none", e), err |-> e,
        world |-> IF e = Nil THEN WorldAfter(world, "REVOKE", "ROLE", role2)
                  ELSE world]

\* func revokeDatabaseRoleFromRole(db, database, role1, role2): the error of
\* ListRoles is dropped
revokeDatabaseRoleFromRole(world, role2, fault, lookupOK) ==
    LET e == Exec(world, "ROLE", role2, fault)
        is2003 == e.type = "SnowflakeError"
                  /\ e.Number = ErrNotExistOrNotAuthorized
        roles == ListRoles(world, role2, lookupOK)
        roleNames == [i \in 1..Len(roles) |-> roles[i].Name]
        returned == IF is2003 /\ ~Contains(roleNames, role2) THEN Nil ELSE e
        lookup == IF ~is2003 THEN "none"
                  ELSE IF lookupOK THEN "ok" ELSE "failed"
    IN [st |-> Sent(world, "REVOKE", "ROLE", role2, e, lookup, returned),
        err |-> returned,
        world |-> IF e = Nil THEN WorldAfter(world, "REVOKE", "ROLE", role2)
                  ELSE world]

\* func revokeDatabaseRoleFromUser(db, database, role1, user): the error of
\* ListUsers is dropped, and it is the login names that are searched
revokeDatabaseRoleFromUser(world, user, fault, lookupOK) ==
    LET e == Exec(world, "USER", user, fault)
        is2003 == e.type = "SnowflakeError"
                  /\ e.Number = ErrNotExistOrNotAuthorized
        users == ListUsers(world, user, lookupOK)
        logins == [i \in 1..Len(users) |-> users[i].LoginName]
        returned == IF is2003 /\ ~Contains(logins, user) THEN Nil ELSE e
        lookup == IF ~is2003 THEN "none"
                  ELSE IF lookupOK THEN "ok" ELSE "failed"
    IN [st |-> Sent(world, "REVOKE", "USER", user, e, lookup, returned),
        err |-> returned,
        world |-> IF e = Nil THEN WorldAfter(world, "REVOKE", "USER", user)
                  ELSE world]

\* the GRANT or REVOKE of one step of a callback's loops
RunStep(step, world, fault, lookupOK) ==
    CASE step.verb = "GRANT" /\ step.to = "ROLE" ->
             grantDatabaseRoleToRole(world, step.grantee, fault, lookupOK)
      [] step.verb = "GRANT" /\ step.to = "USER" ->
             grantDatabaseRoleToUser(world, step.grantee, fault, lookupOK)
      [] step.verb = "REVOKE" /\ step.to = "ROLE" ->
             revokeDatabaseRoleFromRole(world, step.grantee, fault, lookupOK)
      [] step.verb = "REVOKE" /\ step.to = "USER" ->
             revokeDatabaseRoleFromUser(world, step.grantee, fault, lookupOK)

RECURSIVE RunStepsToTheEnd(_, _, _, _, _)
\* loops that send every statement and return the first error afterwards
RunStepsToTheEnd(steps, world, fault, lookupOK, sent) ==
    IF Len(steps) = 0
    THEN [world |-> world, stmts |-> sent, err |-> Nil]
    ELSE LET r == RunStep(steps[1], world, fault, lookupOK)
             rest == RunStepsToTheEnd(Tail(steps), r.world, fault, lookupOK,
                                      Append(sent, r.st))
         IN [rest EXCEPT !.err = IF r.err # Nil THEN r.err ELSE rest.err]

RECURSIVE RunSteps(_, _, _, _, _)
\* the loops of a callback: each step in turn, returning at the first error
RunSteps(steps, world, fault, lookupOK, sent) ==
    IF Len(steps) = 0
    THEN [world |-> world, stmts |-> sent, err |-> Nil]
    ELSE LET r == RunStep(steps[1], world, fault, lookupOK)
         IN IF r.err # Nil
            THEN [world |-> r.world, stmts |-> Append(sent, r.st),
                  err |-> r.err]
            ELSE RunSteps(Tail(steps), r.world, fault, lookupOK,
                          Append(sent, r.st))

\* one step per grantee of a list
Steps(verb, to, grantees) ==
    [i \in 1..Len(grantees) |->
        [verb |-> verb, to |-> to, grantee |-> grantees[i]]]

\* helpers.EncodeSnowflakeID(databaseName, roleName, roles, users)
GrantID(databaseName, roleName, roles, users) ==
    EncodeSnowflakeID(<<AttrString(databaseName), AttrString(roleName),
                        AttrList(roles), AttrList(users)>>)

\* how SHOW DATABASE ROLES IN DATABASE may end: answered, failed as a
\* query, or answered with rows that fail to scan
QueryOutcomes == {"ok", "failed", "unscanned"}

\* func (b *DatabaseRoleBuilder) Show(): a failed query leaves rows nil and
\* scanning them dereferences nil; rows that fail to scan are an error; a
\* role that is not listed is (nil, nil)
Show(world, d, queryOK) ==
    IF queryOK = "failed" THEN [role |-> <<>>, err |-> Panic]
    ELSE IF queryOK = "unscanned"
    THEN [role |-> <<>>, err |-> PlainError("failed to scan stmt")]
    ELSE IF world.parent
    THEN [role |-> <<d.database_name \o <<".">> \o d.role_name>>,
          err |-> Nil]
    ELSE [role |-> <<>>, err |-> Nil]

\* the query a read sent, whether the remote system held the database role
\* then, and how the query ended
Query(world, verb, e) ==
    [verb |-> verb, to |-> "NONE", grantee |-> EmptyStr,
     exists |-> world.parent,
     result |-> e, lookup |-> "none", err |-> e]

\* a readGrantsForDatabaseRole that leaves the quotes of grantee_name
readGrantsForDatabaseRoleUntrimmed(world) ==
    {[GrantedTo |-> g.to, GranteeName |-> g.name] :
        g \in IF world.parent THEN world.grants ELSE {}}

\* func readGrantsForDatabaseRole: the rows of SHOW GRANTS OF DATABASE ROLE
\* with the quotes of grantee_name trimmed; no role, no rows
readGrantsForDatabaseRole(world) ==
    {[GrantedTo |-> g.to, GranteeName |-> TrimQuotes(g.name)] :
        g \in IF world.parent THEN world.grants ELSE {}}

\* func ReadDatabaseRoleGrants(d, meta). grantsOK tells whether SHOW GRANTS
\* OF DATABASE ROLE is answered.
ReadDatabaseRoleGrants(d, ident, world, queryOK, grantsOK) ==
    LET show == Show(world, d, queryOK)
        grants == readGrantsForDatabaseRole(world)
        roles == {g.GranteeName : g \in
                     {x \in grants : x.GrantedTo = "ROLE"
                                     /\ x.GranteeName \in d.roles}}
        users == {g.GranteeName : g \in
                     {x \in grants : x.GrantedTo = "USER"
                                     /\ x.GranteeName \in d.users}}
        grantID == GrantID(d.database_name, d.role_name,
                           expandGranteeList(roles), expandGranteeList(users))
    IN IF show.err = Panic
       THEN [attrs |-> d, id |-> ident,
             stmts |-> <<Query(world, "SHOW DATABASE ROLES", Panic)>>,
             err |-> Panic]
       ELSE IF show.err = ErrNoRows
       THEN [attrs |-> d, id |-> EmptyStr,
             stmts |-> <<Query(world, "SHOW DATABASE ROLES", show.err)>>,
             err |-> Nil]
       ELSE IF ~grantsOK
       THEN [attrs |-> d, id |-> ident,
             stmts |-> <<Query(world, "SHOW DATABASE ROLES", show.err),
                         Query(world, "SHOW GRANTS",
                               PlainError("show grants failed"))>>,
             err |-> PlainError("show grants failed")]
       ELSE [attrs |-> [d EXCEPT !.roles = roles, !.users = users],
             id |-> grantID,
             stmts |-> <<Query(world, "SHOW DATABASE ROLES", show.err),
                         Query(world, "SHOW GRANTS", Nil)>>,
             err |-> Nil]

\* a create that grants to the users before the roles
CreateDatabaseRoleGrantsUsersFirst(d, prior, world, fault, queryOK, grantsOK) ==
    LET roles == expandGranteeList(d.roles)
        users == expandGranteeList(d.users)
        grantID == GrantID(d.database_name, d.role_name, roles, users)
        run == RunSteps(Steps("GRANT", "USER", users)
                        \o Steps("GRANT", "ROLE", roles),
                        world, fault, TRUE, <<>>)
        read == ReadDatabaseRoleGrants(d, grantID, run.world, queryOK,
                                       grantsOK)
    IN IF Len(roles) = 0 /\ Len(users) = 0
       THEN [attrs |-> prior, id |-> EmptyStr, world |-> world,
             stmts |-> <<>>,
             err |-> PlainError(
                 "no users or roles specified for database role grants")]
       ELSE IF run.err # Nil
       THEN [attrs |-> d, id |-> grantID, world |-> run.world,
             stmts |-> run.stmts, err |-> run.err]
       ELSE [attrs |-> read.attrs, id |-> read.id, world |-> run.world,
             stmts |-> run.stmts \o read.stmts, err |-> read.err]

\* func CreateDatabaseRoleGrants(d, meta); prior is the state the host keeps
\* when Create fails without an id
CreateDatabaseRoleGrants(d, prior, world, fault, queryOK, grantsOK) ==
    LET roles == expandGranteeList(d.roles)
        users == expandGranteeList(d.users)
        grantID == GrantID(d.database_name, d.role_name, roles, users)
        run == RunSteps(Steps("GRANT", "ROLE", roles)
                        \o Steps("GRANT", "USER", users),
                        world, fault, TRUE, <<>>)
        read == ReadDatabaseRoleGrants(d, grantID, run.world, queryOK,
                                       grantsOK)
    IN IF Len(roles) = 0 /\ Len(users) = 0
       THEN [attrs |-> prior, id |-> EmptyStr, world |-> world,
             stmts |-> <<>>,
             err |-> PlainError(
                 "no users or roles specified for database role grants")]
       ELSE IF run.err # Nil
       THEN [attrs |-> d, id |-> grantID, world |-> run.world,
             stmts |-> run.stmts, err |-> run.err]
       ELSE [attrs |-> read.attrs, id |-> read.id, world |-> run.world,
             stmts |-> run.stmts \o read.stmts, err |-> read.err]

\* a closure x that grants what entered the set before it revokes what left
UpdateStepsGrantFirst(to, os, ns) ==
    Steps("GRANT", to, expandGranteeList(ns \ os))
    \o Steps("REVOKE", to, expandGranteeList(os \ ns))

\* the closure x of UpdateDatabaseRoleGrants: revoke what left the set, then
\* grant what entered it
UpdateSteps(to, os, ns) ==
    Steps("REVOKE", to, expandGranteeList(os \ ns))
    \o Steps("GRANT", to, expandGranteeList(ns \ os))

\* func UpdateDatabaseRoleGrants(d, meta): d holds the planned attributes,
\* old the prior state; users first, then roles
UpdateDatabaseRoleGrants(d, old, ident, world, fault, lookupOK, queryOK, grantsOK) ==
    LET run == RunSteps(UpdateSteps("USER", old.users, d.users)
                        \o UpdateSteps("ROLE", old.roles, d.roles),
                        world, fault, lookupOK, <<>>)
        read == ReadDatabaseRoleGrants(d, ident, run.world, queryOK,
                                       grantsOK)
    IN IF run.err # Nil
       THEN [attrs |-> d, id |-> ident, world |-> run.world,
             stmts |-> run.stmts, err |-> run.err]
       ELSE [attrs |-> read.attrs, id |-> read.id, world |-> run.world,
             stmts |-> run.stmts \o read.stmts, err |-> read.err]

\* a delete that revokes from the users before the roles
DeleteStepsUsersFirst(d) ==
    Steps("REVOKE", "USER", expandGranteeList(d.users))
    \o Steps("REVOKE", "ROLE", expandGranteeList(d.roles))

\* the statements DeleteDatabaseRoleGrants sends when none returns an error
DeleteSteps(d) ==
    Steps("REVOKE", "ROLE", expandGranteeList(d.roles))
    \o Steps("REVOKE", "USER", expandGranteeList(d.users))

\* a delete that clears the identifier whatever the revokes returned
DeleteDatabaseRoleGrantsClearsAlways(d, ident, world, fault, lookupOK) ==
    LET run == RunSteps(DeleteSteps(d), world, fault, lookupOK, <<>>)
    IN [attrs |-> d, id |-> EmptyStr,
        world |-> run.world, stmts |-> run.stmts, err |-> run.err]

\* func DeleteDatabaseRoleGrants(d, meta)
DeleteDatabaseRoleGrants(d, ident, world, fault, lookupOK) ==
    LET run == RunSteps(DeleteSteps(d), world, fault, lookupOK, <<>>)
    IN [attrs |-> d, id |-> IF run.err = Nil THEN EmptyStr ELSE ident,
        world |-> run.world, stmts |-> run.stmts, err |-> run.err]

----------------------------------------------------------------------------
\* The role-grant resource: one action per callback, and the remote system
\* losing a grantee or the database role

RGIdle ==
    /\ rgAttrs = RGZeroAttrs /\ rgId = EmptyStr
    /\ rgWorld = [parent |-> FALSE, roles |-> {}, users |-> {}, grants |-> {}]
    /\ rgStmts = <<>> /\ rgErr = Nil /\ rgOp = "idle"
    /\ rgCfg = RGZeroAttrs

\* a remote system that holds the database role and every grantee, the user
\* with a login name that is his name or another one
RGInit ==
    /\ rgAttrs = RGZeroAttrs
    /\ rgId = EmptyStr
    /\ rgWorld \in [parent : {TRUE}, roles : {RoleGrantees},
                    users : {{[name |-> UserU1, login |-> l]} :
                                 l \in {UserU1, LoginL1}},
                    grants : {{}}]
    /\ rgStmts = <<>>
    /\ rgErr = Nil
    /\ rgOp = "none"
    /\ rgCfg = RGZeroAttrs

\* terraform apply of a new resource
RGCreate ==
    /\ rgOp = "none"
    /\ \E c \in RGConfigs, fault \in Faults :
        \E r \in {CreateDatabaseRoleGrants(c, rgAttrs, rgWorld, fault, "ok",
                                           TRUE)} :
           /\ rgAttrs' = r.attrs
           /\ rgId' = r.id
           /\ rgWorld' = r.world
           /\ rgStmts' = r.stmts
           /\ rgErr' = r.err
           /\ rgCfg' = c
    /\ rgOp' = "create"

\* terraform refresh
RGRead ==
    /\ rgId # EmptyStr
    /\ \E queryOK \in QueryOutcomes, grantsOK \in BOOLEAN :
        \E r \in {ReadDatabaseRoleGrants(rgAttrs, rgId, rgWorld, queryOK,
                                         grantsOK)} :
           /\ rgAttrs' = r.attrs
           /\ rgId' = r.id
           /\ rgStmts' = r.stmts
           /\ rgErr' = r.err
    /\ rgOp' = "read"
    /\ UNCHANGED <<rgWorld, rgCfg>>

\* terraform apply of changed roles and users, after a callback that
\* returned no error
RGUpdate ==
    /\ rgId # EmptyStr
    /\ rgErr = Nil
    /\ \E c \in RGConfigs, fault \in Faults, lookupOK \in BOOLEAN :
        /\ <<c.roles, c.users>> # <<rgAttrs.roles, rgAttrs.users>>
        /\ \E r \in {UpdateDatabaseRoleGrants(c, rgAttrs, rgId, rgWorld,
                                              fault, lookupOK, "ok",
                                              TRUE)} :
              /\ rgAttrs' = r.attrs
              /\ rgId' = r.id
              /\ rgWorld' = r.world
              /\ rgStmts' = r.stmts
              /\ rgErr' = r.err
              /\ rgCfg' = c
    /\ rgOp' = "update"

\* terraform destroy
RGDelete ==
    /\ rgId # EmptyStr
    /\ \E fault \in Faults, lookupOK \in BOOLEAN :
        \E r \in {DeleteDatabaseRoleGrants(rgAttrs, rgId, rgWorld, fault,
                                           lookupOK)} :
           /\ rgAttrs' = r.attrs
           /\ rgId' = r.id
           /\ rgWorld' = r.world
           /\ rgStmts' = r.stmts
           /\ rgErr' = r.err
    /\ rgOp' = "delete"
    /\ UNCHANGED rgCfg

\* a grantee is dropped outside the resource, and its grants with it
RGDropGrantee ==
    /\ rgId # EmptyStr
    /\ \E g \in RoleGrantees \cup UserGrantees :
        /\ Exists(rgWorld, "ROLE", g) \/ Exists(rgWorld, "USER", g)
        /\ rgWorld' = [rgWorld EXCEPT
               !.roles = @ \ {g},
               !.users = {u \in @ : u.name # g},
               !.grants = {x \in @ : x.name # g}]
    /\ UNCHANGED <<rgAttrs, rgId, rgStmts, rgErr, rgOp, rgCfg>>

\* the database role is dropped outside the resource, and its grants with it
RGDropParent ==
    /\ rgId # EmptyStr
    /\ rgWorld.parent
    /\ rgWorld' = [rgWorld EXCEPT !.parent = FALSE, !.grants = {}]
    /\ UNCHANGED <<rgAttrs, rgId, rgStmts, rgErr, rgOp, rgCfg>>

InitRG == RGInit /\ IDIdle /\ DiffIdle /\ GPIdle /\ SQLIdle

NextRG ==
    /\ \/ RGCreate
       \/ RGRead
       \/ RGUpdate
       \/ RGDelete
       \/ RGDropGrantee
       \/ RGDropParent
    /\ UNCHANGED <<idVars, gpVars, diffVars, sqlVars>>

SpecRG == InitRG /\ [][NextRG]_vars

----------------------------------------------------------------------------
\* Spec: every configuration, applied once, then refreshed, imported or
\* destroyed

Init == cfg \in Configs /\ GPInit /\ IDIdle /\ DiffIdle /\ RGIdle /\ SQLIdle

Next ==
    /\ \/ GPCreate
       \/ GPRead
       \/ GPDelete
       \/ GPImport
    /\ UNCHANGED <<idVars, diffVars, rgVars, sqlVars>>

Spec == Init /\ [][Next]_vars

----------------------------------------------------------------------------
\* SpecLifecycle: the whole lifecycle, with updates and failing statements,
\* of the resources on a database and on future objects

LifecycleConfigs ==
    {c \in Configs :
        /\ SchemaValidate(c)
        /\ c.privileges \subseteq LifecyclePrivileges
        /\ \/ c.on_database
           \/ /\ c.on_schema_object # <<>>
              /\ c.on_schema_object[1].future # <<>>
              /\ c.on_schema_object[1].all = <<>>}

InitLifecycle ==
    /\ cfg \in LifecycleConfigs /\ GPInit
    /\ IDIdle /\ DiffIdle /\ RGIdle /\ SQLIdle

NextLifecycle ==
    /\ \/ GPCreate
       \/ GPRead
       \/ GPUpdate
       \/ GPDelete
       \/ GPImport
    /\ UNCHANGED <<idVars, diffVars, rgVars, sqlVars>>

SpecLifecycle == InitLifecycle /\ [][NextLifecycle]_vars

----------------------------------------------------------------------------
\* SpecRead: a resource is created, then refreshed against an answer of the
\* remote system that holds the role's grants and rows of any other kind

\* how many rows an answer holds besides the role's own grants on the target
MaxRows == 1

\* the rows SHOW GRANTS may return besides the role's grants on the target:
\* any privilege, either grant option, this role or another, with or without
\* a grantor, on the target's object type or another
AnswerRows(d) ==
    [Privilege : LifecyclePrivileges, GrantOption : BOOLEAN,
     GranteeName : {d.role_name, RoleOTHER},
     GrantedBy : {EmptyStr, GrantorACCOUNTADMIN},
     GrantedOn : {TargetObjectType(d)}, GrantOn : {EmptyStr}]
    \cup
    [Privilege : LifecyclePrivileges, GrantOption : BOOLEAN,
     GranteeName : {d.role_name, RoleOTHER},
     GrantedBy : {EmptyStr, GrantorACCOUNTADMIN},
     GrantedOn : {EmptyStr}, GrantOn : {TargetObjectType(d), TypeVIEW}]

\* the answers of the remote system: an error, the role's grants with at
\* most MaxRows other rows, or (the role's grants revoked since) at most
\* MaxRows other rows alone
Answers(d, rem) ==
    {ShowError}
    \cup {ShowRows(OwnRows(rem, d.role_name, TargetObjectType(d),
                           TargetIsFuture(d))
                   \cup {f[i] : i \in 1..MaxRows}) :
             f \in [1..MaxRows -> AnswerRows(d)]}
    \cup {ShowRows({f[i] : i \in 1..MaxRows}) :
             f \in [1..MaxRows -> AnswerRows(d)]}
    \cup {ShowResponse(d, rem, TRUE)}

\* terraform refresh of a resource just created, against any answer
GPReadAnswer ==
    /\ id # EmptyStr
    /\ op = "create"
    /\ \E response \in Answers(attrs, remote) :
        \E r \in {ReadGrantPrivilegesToDatabaseRole(attrs, id, response)} :
           /\ attrs' = r.attrs
           /\ stmts' = r.stmts
           /\ err' = r.err
           /\ shown' = Shown(r, response)
    /\ op' = "read"
    /\ origin' = ZeroAttrs
    /\ UNCHANGED <<cfg, id, remote>>

\* the configurations of one target that name privileges
ReadConfigs ==
    {c \in Configs :
        /\ SchemaValidate(c)
        /\ c.privileges # {}
        /\ c.privileges \subseteq LifecyclePrivileges
        /\ CreateConfigure(ResourceData(c)).err = "nil"}

InitRead ==
    /\ cfg \in ReadConfigs /\ GPInit
    /\ IDIdle /\ DiffIdle /\ RGIdle /\ SQLIdle

NextRead ==
    /\ \/ GPCreate
       \/ GPReadAnswer
    /\ UNCHANGED <<idVars, diffVars, rgVars, sqlVars>>

SpecRead == InitRead /\ [][NextRead]_vars

----------------------------------------------------------------------------
\* SpecID: the identities Create builds, encoded and decoded again

\* the identities Create hands to String(), one per configuration the schema
\* and configureDatabaseRoleGrantPrivilegeOptions accept
CreatedIDs ==
    {CreateResourceID(ResourceData(c)) :
        c \in {x \in Configs :
                  SchemaValidate(x)
                  /\ CreateConfigure(ResourceData(x)).err = "nil"
                  /\ ValidGrantOn(CreateConfigure(ResourceData(x)).on)}}

InitID ==
    /\ idIn \in CreatedIDs
    /\ idStr = EmptyStr
    /\ idOut = ZeroID
    /\ idPc = "new"
    /\ GPIdle /\ DiffIdle /\ RGIdle /\ SQLIdle

\* d.SetId(resourceID.String())
IDEncode ==
    /\ idPc = "new"
    /\ idStr' = String(idIn)
    /\ idPc' = "encoded"
    /\ UNCHANGED <<idIn, idOut>>

\* resourceID := NewGrantPrivilegesToDatabaseRoleID(d.Id())
IDDecode ==
    /\ idPc = "encoded"
    /\ idOut' = NewGrantPrivilegesToDatabaseRoleID(idStr)
    /\ idPc' = "decoded"
    /\ UNCHANGED <<idIn, idStr>>

NextID ==
    /\ \/ IDEncode
       \/ IDDecode
    /\ UNCHANGED <<gpVars, diffVars, rgVars, sqlVars>>

SpecID == InitID /\ [][NextID]_vars

----------------------------------------------------------------------------
\* SpecDiff: the privilege delta of an update, for every pair of sets

\* the privileges the two sets of d.GetChange("privileges") choose from
DiffPrivileges == ToSet(PrivilegeOrder)

InitDiff ==
    /\ diffOld \in SUBSET DiffPrivileges
    /\ diffNew \in SUBSET DiffPrivileges
    /\ delta = <<>>
    /\ IDIdle /\ GPIdle /\ RGIdle /\ SQLIdle

\* the two loops of UpdateGrantPrivilegesToDatabaseRole over the expanded
\* lists of the old and the new set
DiffCompute ==
    /\ delta = <<>>
    /\ delta' = <<[add |-> addPrivileges(expandStringList(diffOld),
                                         expandStringList(diffNew)),
                   remove |-> removePrivileges(expandStringList(diffOld),
                                               expandStringList(diffNew))]>>
    /\ UNCHANGED <<diffOld, diffNew>>

NextDiff ==
    /\ DiffCompute
    /\ UNCHANGED <<idVars, gpVars, rgVars, sqlVars>>

SpecDiff == InitDiff /\ [][NextDiff]_vars

----------------------------------------------------------------------------
\* A refresh of the role-grant resource against any grants the remote
\* system may list for the database role

\* how many grants the remote system lists for the database role
MaxObserved == 3

\* a grantee name as the remote system may quote it
Quoted(s) == <<"\"">> \o s \o <<"\"">>

\* the rows of SHOW GRANTS OF DATABASE ROLE: granted_to ROLE, USER or
\* another type, grantee_name a configurable name, bare or quoted
ObservedGrants ==
    [to : {"ROLE", "USER", "SHARE"},
     name : {GranteeG1, GranteeG2, UserU1, Quoted(GranteeG1)}]

InitRGRead ==
    /\ rgAttrs \in RGConfigs
    /\ rgCfg = rgAttrs
    /\ rgId = GrantID(rgAttrs.database_name, rgAttrs.role_name,
                      expandGranteeList(rgAttrs.roles),
                      expandGranteeList(rgAttrs.users))
    /\ rgWorld \in [parent : {TRUE}, roles : {RoleGrantees},
                    users : {{[name |-> UserU1, login |-> UserU1]}},
                    grants : {g \in SUBSET ObservedGrants :
                                 Cardinality(g) <= MaxObserved}]
    /\ rgStmts = <<>>
    /\ rgErr = Nil
    /\ rgOp = "none"
    /\ IDIdle /\ DiffIdle /\ GPIdle /\ SQLIdle

NextRGRead ==
    /\ RGRead
    /\ UNCHANGED <<idVars, gpVars, diffVars, sqlVars>>

SpecRGRead == InitRGRead /\ [][NextRGRead]_vars

----------------------------------------------------------------------------
\* The statement builder for database role grants

\* the grantee keywords of the two builder methods
userType == <<"U", "S", "E", "R">>
roleType == <<"R", "O", "L", "E">>

\* DatabaseRoleGrant returns a builder for one database role
DatabaseRoleGrant(databaseName, roleName) ==
    [databaseName |-> databaseName, roleName |-> roleName]

\* a User method that sets the grantee keyword of the Role method
UserWithRoleType(gb, user) ==
    [databaseName |-> gb.databaseName, roleName |-> gb.roleName,
     granteeType |-> roleType, grantee |-> user]

\* User returns the executable that grants to, or revokes from, a user
User(gb, user) ==
    [databaseName |-> gb.databaseName, roleName |-> gb.roleName,
     granteeType |-> userType, grantee |-> user]

\* Role returns the executable that grants to, or revokes from, a role
Role(gb, role) ==
    [databaseName |-> gb.databaseName, roleName |-> gb.roleName,
     granteeType |-> roleType, grantee |-> role]

\* GRANT DATABASE ROLE "%s.%s" TO %s "%s"
Grant(gr) ==
    <<"G", "R", "A", "N", "T", " ", "D", "A", "T", "A", "B", "A", "S", "E",
      " ", "R", "O", "L", "E", " ", "\"">>
    \o gr.databaseName \o <<".">> \o gr.roleName
    \o <<"\"", " ", "T", "O", " ">> \o gr.granteeType
    \o <<" ", "\"">> \o gr.grantee \o <<"\"">>

\* REVOKE DATABASE ROLE "%s.%s" FROM %s "%s"
Revoke(gr) ==
    <<"R", "E", "V", "O", "K", "E", " ", "D", "A", "T", "A", "B", "A", "S",
      "E", " ", "R", "O", "L", "E", " ", "\"">>
    \o gr.databaseName \o <<".">> \o gr.roleName
    \o <<"\"", " ", "F", "R", "O", "M", " ">> \o gr.granteeType
    \o <<" ", "\"">> \o gr.grantee \o <<"\"">>

\* the names the builder is called with: plain names, a name with a
\* space, a name of one character and a name spelled like a keyword
SQLNames == {DatabaseDB1, RoleR1, <<"a", " ", "b">>, <<"x">>, roleType}

InitSQL ==
    /\ sqlIn \in [database : SQLNames, role : SQLNames, grantee : SQLNames,
                  method : {"User", "Role"}]
    /\ sqlExe = NoExecutable /\ sqlGrant = EmptyStr /\ sqlRevoke = EmptyStr
    /\ IDIdle /\ DiffIdle /\ GPIdle /\ RGIdle

\* DatabaseRoleGrant(d, r).User(g) or .Role(g)
SQLBuild ==
    /\ sqlExe = NoExecutable
    /\ sqlExe' = IF sqlIn.method = "User"
                 THEN User(DatabaseRoleGrant(sqlIn.database, sqlIn.role),
                           sqlIn.grantee)
                 ELSE Role(DatabaseRoleGrant(sqlIn.database, sqlIn.role),
                           sqlIn.grantee)
    /\ UNCHANGED <<sqlIn, sqlGrant, sqlRevoke>>

SQLGrant ==
    /\ sqlExe # NoExecutable /\ sqlGrant = EmptyStr
    /\ sqlGrant' = Grant(sqlExe)
    /\ UNCHANGED <<sqlIn, sqlExe, sqlRevoke>>

SQLRevoke ==
    /\ sqlExe # NoExecutable /\ sqlRevoke = EmptyStr
    /\ sqlRevoke' = Revoke(sqlExe)
    /\ UNCHANGED <<sqlIn, sqlExe, sqlGrant>>

NextSQL ==
    /\ (SQLBuild \/ SQLGrant \/ SQLRevoke)
    /\ UNCHANGED <<idVars, gpVars, diffVars, rgVars>>

SpecSQL == InitSQL /\ [][NextSQL]_vars

----------------------------------------------------------------------------
\* SpecRecover: an operation fails partway, then the resource is refreshed
\* and applied again toward the same configuration, with nothing failing

\* the configurations of a privilege resource whose create succeeds
RecoverConfigs ==
    {c \in ReadConfigs : ValidGrantOn(CreateConfigure(ResourceData(c)).on)}

InitRecover ==
    /\ \/ RGInit /\ GPIdle
       \/ cfg \in RecoverConfigs /\ GPInit /\ RGIdle
    /\ IDIdle /\ DiffIdle /\ SQLIdle

\* a create of role grants whose k-th GRANT fails
RecCreateFails ==
    /\ RGCreate
    /\ rgErr' # Nil
    /\ rgStmts' # <<>>
    /\ UNCHANGED <<gpVars, idVars, diffVars, sqlVars>>

\* the refresh after the failed create, every query answered
RecRGRead ==
    /\ rgOp = "create"
    /\ rgId # EmptyStr
    /\ \E r \in {ReadDatabaseRoleGrants(rgAttrs, rgId, rgWorld, "ok",
                                         TRUE)} :
           /\ rgAttrs' = r.attrs
           /\ rgId' = r.id
           /\ rgStmts' = r.stmts
           /\ rgErr' = r.err
    /\ rgOp' = "read"
    /\ UNCHANGED <<rgWorld, rgCfg>>
    /\ UNCHANGED <<gpVars, idVars, diffVars, sqlVars>>

\* the apply toward the configuration of the failed create: an update
\* from the refreshed state, no statement made to fail
RecRGApply ==
    /\ rgOp = "read"
    /\ rgId # EmptyStr
    /\ \E r \in {UpdateDatabaseRoleGrants(rgCfg, rgAttrs, rgId, rgWorld,
                                           NoFault, TRUE, "ok", TRUE)} :
           /\ rgAttrs' = r.attrs
           /\ rgId' = r.id
           /\ rgWorld' = r.world
           /\ rgStmts' = r.stmts
           /\ rgErr' = r.err
    /\ rgOp' = "update"
    /\ UNCHANGED rgCfg
    /\ UNCHANGED <<gpVars, idVars, diffVars, sqlVars>>

\* a privilege resource is created
RecGPCreate ==
    /\ GPCreate
    /\ err' = "nil"
    /\ UNCHANGED <<rgVars, idVars, diffVars, sqlVars>>

\* an update that adds and removes privileges, whose second statement fails
RecUpdateFails ==
    /\ op = "create"
    /\ GPUpdate
    /\ err' # "nil"
    /\ Len(stmts') = 2
    /\ UNCHANGED <<rgVars, idVars, diffVars, sqlVars>>

\* the refresh after the failed update, SHOW GRANTS answered
RecGPRead ==
    /\ op = "update"
    /\ err # "nil"
    /\ id # EmptyStr
    /\ \E response \in {ShowResponse(attrs, remote, TRUE)} :
        \E r \in {ReadGrantPrivilegesToDatabaseRole(attrs, id, response)} :
           /\ attrs' = r.attrs
           /\ stmts' = r.stmts
           /\ err' = r.err
           /\ shown' = Shown(r, response)
    /\ op' = "read"
    /\ origin' = ZeroAttrs
    /\ UNCHANGED <<cfg, id, remote>>
    /\ UNCHANGED <<rgVars, idVars, diffVars, sqlVars>>

\* the apply toward the configuration of the failed update: an update from
\* the refreshed state when its privileges differ from the configured ones,
\* nothing to do when they do not; no statement made to fail
RecGPApply ==
    /\ op = "read"
    /\ id # EmptyStr
    /\ IF attrs.privileges = cfg.privileges
       THEN UNCHANGED <<attrs, id, remote, stmts, err, shown>>
       ELSE \E d \in {[attrs EXCEPT !.privileges = cfg.privileges]} :
            \E r \in {UpdateGrantPrivilegesToDatabaseRole(
                          d, attrs.privileges, id, remote, 0, TRUE)} :
               /\ attrs' = r.attrs
               /\ id' = r.id
               /\ remote' = r.remote
               /\ stmts' = r.stmts
               /\ err' = r.err
               /\ shown' = Shown(r, ShowResponse(d, r.remote, TRUE))
    /\ op' = "apply"
    /\ origin' = ZeroAttrs
    /\ UNCHANGED cfg
    /\ UNCHANGED <<rgVars, idVars, diffVars, sqlVars>>

NextRecover ==
    \/ RecCreateFails
    \/ RecRGRead
    \/ RecRGApply
    \/ RecGPCreate
    \/ RecUpdateFails
    \/ RecGPRead
    \/ RecGPApply

SpecRecover == InitRecover /\ [][NextRecover]_vars

----------------------------------------------------------------------------
\* SpecOps: the lifecycles of both resources, with failing statements

InitOps ==
    /\ \/ RGInit /\ GPIdle
       \/ cfg \in LifecycleConfigs /\ GPInit /\ RGIdle
    /\ IDIdle /\ DiffIdle /\ SQLIdle

NextOps == NextRG \/ NextLifecycle

SpecOps == InitOps /\ [][NextOps]_vars

----------------------------------------------------------------------------
\* SpecIDNames: the identifier of an identity whose names hold a delimiter

\* a name with the field delimiter in it, a privilege with the list delimiter
NameWithDelimiter == <<"a", "|", "b">>
PrivilegeWithComma == <<"S", ",", "U">>

\* the identities Create builds for configurations with such a role,
\* database, schema or object name, or such a privilege
DelimitedIDs ==
    {[x EXCEPT !.RoleName = NameWithDelimiter] : x \in CreatedIDs}
    \cup {[x EXCEPT !.DatabaseName = NameWithDelimiter] : x \in CreatedIDs}
    \cup {[x EXCEPT !.SchemaName = NameWithDelimiter] :
              x \in {y \in CreatedIDs : y.SchemaName # EmptyStr}}
    \cup {[x EXCEPT !.ObjectName = NameWithDelimiter] :
              x \in {y \in CreatedIDs : y.ObjectName # EmptyStr}}
    \cup {[x EXCEPT !.Privileges = <<PrivilegeWithComma>>] :
              x \in {y \in CreatedIDs : y.Privileges # <<>>}}

InitIDNames ==
    /\ idIn \in DelimitedIDs
    /\ idStr = EmptyStr
    /\ idOut = ZeroID
    /\ idPc = "new"
    /\ GPIdle /\ DiffIdle /\ RGIdle /\ SQLIdle

SpecIDNames == InitIDNames /\ [][NextID]_vars

----------------------------------------------------------------------------
\* SpecRGImport: a database-role-grants resource is created and refreshed,
\* then imported by the identifier it stored

\* helpers.StringListToList(s): the elements of a comma-separated list
StringListToList(s) ==
    IF s = EmptyStr THEN <<>> ELSE Split(s, ListDelimiter)

\* DatabaseRoleGrants().Importer.StateContext(ctx, d, meta), d being a
\* fresh schema.ResourceData that carries the identifier only
ImportDatabaseRoleGrants(ident) ==
    LET parts == Split(ident, IDDelimiter)
    IN IF Len(parts) # 3
       THEN [attrs |-> RGZeroAttrs,
             err |-> PlainError("invalid ID specified for role grants")]
       ELSE [attrs |-> [database_name |-> parts[1], role_name |-> parts[1],
                        roles |-> ToSet(StringListToList(parts[2])),
                        users |-> ToSet(StringListToList(parts[3]))],
             err |-> Nil]

\* terraform import of the identifier a create or a read stored
RGImport ==
    /\ rgId # EmptyStr
    /\ rgOp \in {"create", "read"}
    /\ \E r \in {ImportDatabaseRoleGrants(rgId)} :
          /\ rgAttrs' = r.attrs
          /\ rgErr' = r.err
    /\ rgStmts' = <<>>
    /\ rgOp' = "import"
    /\ UNCHANGED <<rgId, rgWorld, rgCfg>>

InitRGImport == RGInit /\ IDIdle /\ DiffIdle /\ GPIdle /\ SQLIdle

NextRGImport ==
    /\ \/ RGCreate
       \/ rgOp # "import" /\ RGRead
       \/ RGImport
    /\ UNCHANGED <<idVars, gpVars, diffVars, sqlVars>>

SpecRGImport == InitRGImport /\ [][NextRGImport]_vars

----------------------------------------------------------------------------
\* Properties

\* C1: for every identity x that Create builds, decoding the identifier
\* that String() produces for x yields an identity equal to x in every
\* field, InDatabase included.
C1_RoundTrip == idPc = "decoded" => idOut = idIn

\* the privileges of a list
C2_Set(list) == {list[i] : i \in 1..Len(list)}

\* C2: for every pair of privilege sets (old, new) the computed delta has
\* addPrivileges = new minus old and removePrivileges = old minus new, the
\* two are disjoint, and (old minus removePrivileges) union addPrivileges is
\* exactly new.
C2_Delta ==
    delta # <<>> =>
        LET add == C2_Set(delta[1].add)
            remove == C2_Set(delta[1].remove)
        IN /\ add = diffNew \ diffOld
           /\ remove = diffOld \ diffNew
           /\ add \cap remove = {}
           /\ (diffOld \ remove) \cup add = diffNew

\* C2 happens: a delta was computed from sets that share a privilege, where
\* one privilege is added and another removed.
C2_Witness ==
    /\ delta # <<>>
    /\ diffOld \cap diffNew # {}
    /\ Len(delta[1].add) > 0
    /\ Len(delta[1].remove) > 0

\* the positions of the statements of a verb among those the last callback
\* sent
C3_Positions(verb) == {i \in DOMAIN stmts : stmts[i].verb = verb}

\* C3 as amended: in an update that sends both a GRANT for added privileges
\* and a REVOKE for removed ones, the GRANT is sent, and has succeeded,
\* before the REVOKE is sent.
C3_GrantBeforeRevoke ==
    op = "update" =>
        \A i \in C3_Positions("GRANT"), j \in C3_Positions("REVOKE") : i < j

\* C3 as stated: in an update where both the remove set and the add set
\* are non-empty, the REVOKE of the removed privileges is executed before
\* the GRANT of the added privileges is issued.
C3_RevokeBeforeGrant ==
    op = "update" =>
        \A i \in C3_Positions("GRANT"), j \in C3_Positions("REVOKE") : j < i

\* C3 happens: an update sent a GRANT and a REVOKE and returned no error.
C3_Witness ==
    /\ op = "update"
    /\ C3_Positions("GRANT") # {}
    /\ C3_Positions("REVOKE") # {}
    /\ err = "nil"

\* the privilege list of the stored identifier
C4_StoredPrivileges ==
    ToSet(NewGrantPrivilegesToDatabaseRoleID(id).Privileges)

\* C4: after any read, the privileges attribute written to state is a
\* subset of the privilege list of the stored identifier, whatever rows the
\* remote system returned.
C4_ReadWithinIdentity ==
    op = "read" => attrs.privileges \subseteq C4_StoredPrivileges

\* C4 happens: a read reported a privilege while the remote system showed
\* the same role holding, on the same target and with the same grant option,
\* a privilege that is not in the stored identifier.
C4_Witness ==
    /\ op = "read"
    /\ err = "nil"
    /\ attrs.privileges # {}
    /\ \E row \in shown :
        /\ row.Privilege \notin C4_StoredPrivileges
        /\ row.GranteeName = attrs.role_name
        /\ row.GrantOption = attrs.with_grant_option
        /\ row.GrantedBy # EmptyStr
        /\ row.GrantedOn = TargetObjectType(attrs)

\* how many of on_database, on_schema, on_schema_object a configuration
\* populates
C5_Targets(c) ==
    (IF c.on_database THEN 1 ELSE 0)
    + (IF c.on_schema # <<>> THEN 1 ELSE 0)
    + (IF c.on_schema_object # <<>> THEN 1 ELSE 0)

\* C5: creating a resource whose configuration populates none, or two or
\* more, of on_database, on_schema, on_schema_object fails with a
\* configuration error, sends no GRANT and leaves the identifier unset.
C5_OneTargetOrError ==
    (op # "none" /\ C5_Targets(cfg) # 1) =>
        /\ err \in {ErrValidate,
                    "error configuring database role grant privilege options"}
        /\ \A i \in DOMAIN stmts : stmts[i].verb # "GRANT"
        /\ remote = {}
        /\ id = EmptyStr

\* C5 happens: Create ran on a configuration with no target and returned
\* the configuration error of configureDatabaseRoleGrantPrivilegeOptions.
C5_Witness ==
    /\ op = "create"
    /\ C5_Targets(cfg) = 0
    /\ cfg.privileges # {}
    /\ err = "error configuring database role grant privilege options"

\* C6: a failed REVOKE DATABASE ROLE is turned into success only when its
\* error number is 2003 and the lookup succeeded and found the grantee
\* absent; with another number, with the grantee still there, or with a
\* failed lookup, the error of the REVOKE is what the helper returns.
C6_RevokeSuppression ==
    \A i \in DOMAIN rgStmts :
        LET st == rgStmts[i]
        IN (st.verb = "REVOKE" /\ st.result # Nil) =>
               IF /\ st.result = SnowflakeError(ErrNotExistOrNotAuthorized)
                  /\ st.lookup = "ok"
                  /\ ~st.exists
               THEN st.err = Nil
               ELSE st.err = st.result

\* a REVOKE from a role that was dropped: the remote system no longer
\* holds the grantee and answers error 2003, and no listing of roles failed
C7_DroppedRoleRevoke(st) ==
    /\ st.verb = "REVOKE"
    /\ st.to = "ROLE"
    /\ st.result = SnowflakeError(ErrNotExistOrNotAuthorized)
    /\ st.lookup # "failed"
    /\ ~st.exists

\* C7: revoking the database role from a role that was dropped returns nil,
\* and the delete or update it is part of goes on: it is not the last
\* statement sent unless the loops are through, and a delete whose revokes
\* all returned nil clears the identifier.
C7_DroppedRoleContinues ==
    rgOp \in {"delete", "update"} =>
        /\ \A i \in DOMAIN rgStmts :
              C7_DroppedRoleRevoke(rgStmts[i]) => rgStmts[i].err = Nil
        /\ (rgOp = "delete"
            /\ \A i \in DOMAIN rgStmts : rgStmts[i].err = Nil) =>
               /\ Len(rgStmts) = Len(DeleteSteps(rgAttrs))
               /\ rgErr = Nil
               /\ rgId = EmptyStr

\* C7 happens: a delete revoked from a dropped role, then sent the revoke
\* of the next grantee and returned no error.
C7_Witness ==
    /\ rgOp = "delete"
    /\ rgErr = Nil
    /\ \E i \in DOMAIN rgStmts :
        /\ C7_DroppedRoleRevoke(rgStmts[i])
        /\ i < Len(rgStmts)

\* C8: when the database role does not exist at read time and the query for
\* it is answered, ReadDatabaseRoleGrants clears the identifier and returns
\* no error.
C8_MissingParentClearsId ==
    (/\ rgOp = "read"
     /\ rgStmts[1].verb = "SHOW DATABASE ROLES"
     /\ rgStmts[1].result = Nil
     /\ ~rgStmts[1].exists) =>
        /\ rgId = EmptyStr
        /\ rgErr = Nil

\* a block with exactly one scope: in_database, or in_schema
C9_OneScope(b) == b.in_database # (b.in_schema # EmptyStr)

\* the target shapes of C9: database, schema by name, all schemas, future
\* schemas, object by name, all in database or schema, future in database or
\* schema
C9_Shape(c) ==
    \/ c.on_database
    \/ /\ c.on_schema # <<>>
       /\ \/ c.on_schema[1].schema_name # EmptyStr
          \/ c.on_schema[1].all_schemas
          \/ c.on_schema[1].future_schemas
    \/ /\ c.on_schema_object # <<>>
       /\ LET b == c.on_schema_object[1]
          IN \/ b.object_type # EmptyStr /\ b.all = <<>> /\ b.future = <<>>
             \/ b.object_type = EmptyStr /\ b.all # <<>> /\ b.future = <<>>
                /\ C9_OneScope(b.all[1])
             \/ b.object_type = EmptyStr /\ b.all = <<>> /\ b.future # <<>>
                /\ C9_OneScope(b.future[1])

\* C9: importing a resource by the identifier Create stored yields, for
\* every target shape and unless the remote system fails to answer,
\* attributes equal to those of the resource that produced the identifier.
C9_ImportEqualsOrigin ==
    (/\ op = "import"
     /\ C9_Shape(origin)
     /\ err # "error retrieving grants for database role") =>
        /\ err = "nil"
        /\ attrs = origin

\* on_schema_object.future{object_type_plural = "TABLES", in_database = true}
C10_Config(c) ==
    /\ ~c.on_database
    /\ c.on_schema = <<>>
    /\ c.on_schema_object # <<>>
    /\ c.on_schema_object[1].object_type = EmptyStr
    /\ c.on_schema_object[1].object_name = EmptyStr
    /\ c.on_schema_object[1].all = <<>>
    /\ c.on_schema_object[1].future
           = <<[object_type_plural |-> TypeTABLES, in_database |-> TRUE,
                in_schema |-> EmptyStr]>>
    /\ c.privileges # {}
    /\ ~c.all_privileges

\* C10: the configuration future{TABLES, in_database = true} is accepted,
\* the grant target built from it is FUTURE TABLES IN DATABASE, and the
\* identifier stored for it decodes to Future with ObjectTypePlural TABLES.
C10_FutureInDatabase ==
    (op = "create" /\ C10_Config(cfg)) =>
        /\ err # ErrValidate
        /\ Len(stmts) > 0
        /\ stmts[1].verb = "GRANT"
        /\ stmts[1].on[1].SchemaObject[1].Future[1].PluralObjectType
               = TypeTABLES
        /\ stmts[1].on[1].SchemaObject[1].Future[1].InDatabase # <<>>
        /\ id # EmptyStr =>
               /\ NewGrantPrivilegesToDatabaseRoleID(id).Future
               /\ NewGrantPrivilegesToDatabaseRoleID(id).ObjectTypePlural
                      = TypeTABLES

\* the sub-variants an identity sets, the named one being named by field
C11_SubVariants(x, named) ==
    (IF named # EmptyStr THEN 1 ELSE 0) + (IF x.All THEN 1 ELSE 0)
    + (IF x.Future THEN 1 ELSE 0)

C12_Unreadable(x) ==
    \/ x.AllPrivileges
    \/ x.OnSchema /\ x.All
    \/ x.OnSchemaObject /\ x.All

\* C12: a read of a resource whose stored identity has all privileges, or
\* targets all schemas in the database or all objects of a plural type,
\* sends no query, returns no error and leaves every attribute and the
\* identifier as they were.
C12_UnreadableReadIsNoOp ==
    [][(/\ op' = "read"
        /\ id # EmptyStr
        /\ C12_Unreadable(NewGrantPrivilegesToDatabaseRoleID(id))) =>
           /\ stmts' = <<>>
           /\ err' = "nil"
           /\ attrs' = attrs
           /\ id' = id]_vars

\* C12 happens: a read ran on an identity that targets all objects of a
\* plural type with named privileges, and sent nothing.
C12_Witness ==
    /\ op = "read"
    /\ NewGrantPrivilegesToDatabaseRoleID(id).OnSchemaObject
    /\ NewGrantPrivilegesToDatabaseRoleID(id).All
    /\ ~NewGrantPrivilegesToDatabaseRoleID(id).AllPrivileges
    /\ attrs.privileges # {}
    /\ stmts = <<>>

\* the literal of a boolean field
C13_Bool(b) == IF b THEN <<"t", "r", "u", "e">> ELSE <<"f", "a", "l", "s", "e">>

\* the fifteen fields of an identity, in the order of the identifier
C13_Fields(x) ==
    <<x.RoleName, x.DatabaseName, Join(x.Privileges, ","),
      C13_Bool(x.AllPrivileges), C13_Bool(x.WithGrantOption),
      C13_Bool(x.OnDatabase), C13_Bool(x.OnSchema),
      C13_Bool(x.OnSchemaObject), C13_Bool(x.All), C13_Bool(x.Future),
      x.ObjectType, x.ObjectName, x.ObjectTypePlural, C13_Bool(x.InSchema),
      x.SchemaName>>

\* C13: the identifier is fifteen fields separated by "|": role, database,
\* comma-joined privileges, all-privileges, with-grant-option, on-database,
\* on-schema, on-schema-object, all, future, object type, object name,
\* plural object type, in-schema, schema name, each boolean the literal
\* true or false; and the decoder reads the fields at the same positions.
C13_FifteenFields ==
    /\ idPc \in {"encoded", "decoded"} =>
           Split(idStr, "|") = C13_Fields(idIn)
    /\ idPc = "decoded" =>
           /\ idOut # PanicID
           /\ C13_Fields(idOut) = Split(idStr, "|")
           /\ idOut.Privileges = idIn.Privileges

\* C13 happens: an identifier with two privileges, a named object and a
\* grant option was encoded and decoded.
C13_Witness ==
    /\ idPc = "decoded"
    /\ Len(idIn.Privileges) = 2
    /\ idIn.ObjectName # EmptyStr
    /\ idIn.ObjectType # EmptyStr
    /\ idIn.WithGrantOption

\* the positions of the statements of a verb to a kind of grantee among
\* those the last callback of the role-grant resource sent
C14_Positions(verb, to) ==
    {i \in DOMAIN rgStmts : rgStmts[i].verb = verb /\ rgStmts[i].to = to}

\* what C14 says of a create: one GRANT per configured role and per
\* configured user, roles before users, the read after the last grant, and
\* no error
C14_Body ==
    /\ \A g \in rgCfg.roles :
          Cardinality({i \in C14_Positions("GRANT", "ROLE") :
                          rgStmts[i].grantee = g}) = 1
    /\ \A g \in rgCfg.users :
          Cardinality({i \in C14_Positions("GRANT", "USER") :
                          rgStmts[i].grantee = g}) = 1
    /\ Cardinality(C14_Positions("GRANT", "ROLE")) = Cardinality(rgCfg.roles)
    /\ Cardinality(C14_Positions("GRANT", "USER")) = Cardinality(rgCfg.users)
    /\ \A i \in C14_Positions("GRANT", "ROLE"),
          j \in C14_Positions("GRANT", "USER") : i < j
    /\ C14_Positions("SHOW GRANTS", "NONE") # {}
    /\ \A i \in C14_Positions("GRANT", "ROLE")
                  \cup C14_Positions("GRANT", "USER"),
          j \in C14_Positions("SHOW GRANTS", "NONE") : i < j
    /\ rgErr = Nil

\* a create all of whose statements succeeded
C14_AllSucceeded ==
    /\ rgOp = "create"
    /\ \A i \in DOMAIN rgStmts : rgStmts[i].result = Nil

\* C14 as amended: CreateDatabaseRoleGrants of a configuration that names
\* at least one role or user, when every statement succeeds, sends exactly
\* one GRANT DATABASE ROLE per configured role and per configured user, the
\* role grants before the user grants, reads (SHOW GRANTS OF DATABASE ROLE)
\* only after the last grant, and returns no error.
C14_CreateGrantsThenReads ==
    (C14_AllSucceeded /\ rgCfg.roles \cup rgCfg.users # {}) => C14_Body

\* C14 as stated: CreateDatabaseRoleGrants, when every statement succeeds,
\* sends one GRANT per configured role and user, roles first, then reads,
\* and returns no error.
C14_CreateAlwaysReads == C14_AllSucceeded => C14_Body

\* C14 happens: a create granted to two roles and a user and then read.
C14_Witness ==
    /\ C14_AllSucceeded
    /\ Cardinality(rgCfg.roles) = 2
    /\ Cardinality(rgCfg.users) = 1
    /\ Len(rgStmts) = 5

\* C15: DeleteDatabaseRoleGrants, when every statement succeeds, sends
\* exactly one REVOKE DATABASE ROLE per role and per user held in state, the
\* role revokes before the user revokes, sends nothing else, and ends with
\* the identifier cleared.
C15_DeleteRevokesAll ==
    (/\ rgOp = "delete"
     /\ \A i \in DOMAIN rgStmts : rgStmts[i].result = Nil) =>
        /\ \A g \in rgAttrs.roles :
              Cardinality({i \in C14_Positions("REVOKE", "ROLE") :
                              rgStmts[i].grantee = g}) = 1
        /\ \A g \in rgAttrs.users :
              Cardinality({i \in C14_Positions("REVOKE", "USER") :
                              rgStmts[i].grantee = g}) = 1
        /\ Len(rgStmts)
               = Cardinality(rgAttrs.roles) + Cardinality(rgAttrs.users)
        /\ \A i \in DOMAIN rgStmts :
              rgStmts[i].verb = "REVOKE" /\ rgStmts[i].lookup = "none"
        /\ \A i \in C14_Positions("REVOKE", "ROLE"),
              j \in C14_Positions("REVOKE", "USER") : i < j
        /\ rgId = EmptyStr
        /\ rgErr = Nil

\* C15 happens: a delete revoked from two roles and a user, every statement
\* succeeded.
C15_Witness ==
    /\ rgOp = "delete"
    /\ Len(rgStmts) = 3
    /\ \A i \in DOMAIN rgStmts : rgStmts[i].result = Nil
    /\ Cardinality(rgAttrs.roles) = 2
    /\ Cardinality(rgAttrs.users) = 1

\* whether the remote system lists g, bare or quoted, as a grantee of the
\* given type
C16_Listed(to, g) ==
    \E x \in rgWorld.grants :
        x.to = to /\ x.name \in {g, <<"\"">> \o g \o <<"\"">>}

\* C16: after a read whose queries were answered, roles is exactly the set
\* of configured roles the remote system lists as ROLE grantees and users
\* the set of configured users it lists as USER grantees; grants of another
\* grantee type and grantees that are not configured are ignored, and the
\* read returns no error.
C16_ReadKeepsListedConfigured ==
    [][(/\ rgOp' = "read"
        /\ Len(rgStmts') = 2
        /\ \A i \in DOMAIN rgStmts' : rgStmts'[i].result = Nil) =>
           /\ rgErr' = Nil
           /\ rgAttrs'.roles
                  = {g \in rgAttrs.roles : C16_Listed("ROLE", g)}
           /\ rgAttrs'.users
                  = {g \in rgAttrs.users : C16_Listed("USER", g)}]_vars

\* C16 happens: a read kept a configured role while the remote system also
\* listed a grantee of another type and a role that is not configured.
C16_Witness ==
    /\ rgOp = "read"
    /\ rgErr = Nil
    /\ rgAttrs.roles = {GranteeG1}
    /\ rgCfg.roles = {GranteeG1}
    /\ \E x \in rgWorld.grants : x.to = "SHARE"
    /\ \E x \in rgWorld.grants : x.to = "ROLE" /\ x.name = GranteeG2

\* the statement the claim spells out for a verb, a preposition, a grantee
\* keyword and the three names
C17_Form(verb, prep, kw, d, r, g) ==
    Join(<<verb, <<"D", "A", "T", "A", "B", "A", "S", "E">>, roleType,
           Quoted(d \o <<".">> \o r), prep, kw, Quoted(g)>>, " ")

\* the grantee keyword of the builder method that was called
C17_Keyword == IF sqlIn.method = "User" THEN userType ELSE roleType

\* C17: for every database name d, role name r and grantee name g, the
\* executable built by DatabaseRoleGrant(d, r).User(g) or .Role(g) renders
\* exactly GRANT DATABASE ROLE "d.r" TO USER|ROLE "g" and
\* REVOKE DATABASE ROLE "d.r" FROM USER|ROLE "g", the keyword being the one
\* of the method called, and both statements name the same role and
\* grantee.
C17_ExactStatements ==
    /\ sqlGrant # EmptyStr =>
          sqlGrant = C17_Form(<<"G", "R", "A", "N", "T">>, <<"T", "O">>,
                              C17_Keyword, sqlIn.database, sqlIn.role,
                              sqlIn.grantee)
    /\ sqlRevoke # EmptyStr =>
          sqlRevoke = C17_Form(<<"R", "E", "V", "O", "K", "E">>,
                               <<"F", "R", "O", "M">>, C17_Keyword,
                               sqlIn.database, sqlIn.role, sqlIn.grantee)
    /\ (sqlGrant # EmptyStr /\ sqlRevoke # EmptyStr) =>
          LET gq == Split(sqlGrant, "\"")
              rq == Split(sqlRevoke, "\"")
          IN  gq[2] = rq[2] /\ gq[4] = rq[4]

\* C17 witness: both statements of a user executable have been rendered,
\* for a grantee whose name has a space
C17_Witness ==
    /\ sqlGrant # EmptyStr /\ sqlRevoke # EmptyStr
    /\ sqlIn.method = "User"
    /\ sqlIn.grantee = <<"a", " ", "b">>
    /\ sqlIn.database # sqlIn.role

\* the apply that follows the failure and the refresh has returned
C18_Applied == rgOp = "update" \/ op = "apply"

\* the remote system holds the grants of the desired configuration, no
\* more and no fewer
C18_Converged ==
    IF rgOp # "idle"
    THEN rgWorld.grants =
             {[to |-> "ROLE", name |-> g] : g \in rgCfg.roles}
             \cup {[to |-> "USER", name |-> g] : g \in rgCfg.users}
    ELSE {g.privilege : g \in remote} = cfg.privileges

\* C18: after a create of role grants failed at its k-th GRANT, or a
\* privilege update failed at its second statement, a refresh followed by
\* an apply toward the same configuration, none of them failing, leaves
\* the remote system with exactly the desired grants.
C18_RecoveryConverges == C18_Applied => C18_Converged

\* the part of C18 that holds: the role-grant resource recovers
C18_RoleGrantsConverge == rgOp = "update" => C18_Converged

\* the part of C18 that holds: a privilege resource recovers when Read can
\* observe its target
C18_ReadableConverges ==
    (/\ op = "apply"
     /\ ~C12_Unreadable(NewGrantPrivilegesToDatabaseRoleID(id)))
        => C18_Converged

\* the five conditions of the claim on one row of the response, against the
\* stored identifier and the attributes of the resource
C19_Included(row) ==
    /\ row.Privilege \in C4_StoredPrivileges
    /\ row.GrantOption = attrs.with_grant_option
    /\ row.GranteeName = attrs.role_name
    /\ row.GrantedBy # EmptyStr
           \/ NewGrantPrivilegesToDatabaseRoleID(id).Future
    /\ TargetObjectType(attrs) \in {row.GrantedOn, row.GrantOn}

\* C19: a read that got an answer reports exactly the privileges of the
\* rows whose privilege is in the stored identifier's list, whose grant
\* option equals with_grant_option, whose grantee is the role, that carry a
\* grantor unless the identifier is a future grant, and whose granted_on
\* or grant_on is the object type of the target.
C19_ReportedExactly ==
    (op = "read" /\ err = "nil" /\ stmts # <<>>) =>
        attrs.privileges = {row.Privilege : row \in
                               {x \in shown : C19_Included(x)}}

\* C19 witness: a read was answered with a single row that passes every
\* test but the one on the object type, and reported nothing
C19_Witness ==
    /\ op = "read" /\ err = "nil" /\ stmts # <<>>
    /\ attrs.privileges = {}
    /\ \E row \in shown :
        /\ row.Privilege \in C4_StoredPrivileges
        /\ row.GrantOption = attrs.with_grant_option
        /\ row.GranteeName = attrs.role_name
        /\ row.GrantedBy # EmptyStr
        /\ TargetObjectType(attrs) \notin {row.GrantedOn, row.GrantOn}

\* the callbacks that send GRANT and REVOKE statements
C20_Operations == {"create", "update", "delete"}

\* the errors of a failed GRANT and of a failed REVOKE of privileges
C20_ErrorOf(verb) ==
    IF verb = "GRANT" THEN "error granting privileges to database role"
    ELSE "error revoking privileges from database role"

\* the privilege resource: an operation that returned the error of a GRANT
\* or REVOKE sent that statement last, and each statement once at most
C20_PrivilegesAbort ==
    (op \in C20_Operations
     /\ err \in {C20_ErrorOf("GRANT"), C20_ErrorOf("REVOKE")}) =>
        /\ stmts # <<>>
        /\ err = C20_ErrorOf(stmts[Len(stmts)].verb)
        /\ \A i, j \in DOMAIN stmts :
              stmts[i].verb = stmts[j].verb => i = j

\* the role-grant resource: the statement at position i, which ended with
\* the error e, stopped the operation
C20_Stopped(i, e) ==
    /\ i = Len(rgStmts)
    /\ rgErr = e

\* C20 as amended: in create, update and delete of both resources the
\* first GRANT or REVOKE whose error is returned by the code that sent it
\* is the last statement of the operation and its error is the
\* operation's; the only failed statement an operation goes on after is a
\* REVOKE DATABASE ROLE that failed with error 2003 and was followed by
\* the lookup of the grantee.
C20_FirstReturnedErrorStops ==
    /\ C20_PrivilegesAbort
    /\ rgOp \in C20_Operations =>
          \A i \in DOMAIN rgStmts :
              LET st == rgStmts[i]
              IN /\ st.err # Nil => (C20_Stopped(i, st.err)
                                     /\ st.err = st.result)
                 /\ (st.result # Nil /\ st.err = Nil) =>
                        /\ st.verb = "REVOKE"
                        /\ st.result =
                               SnowflakeError(ErrNotExistOrNotAuthorized)
                        /\ st.lookup # "none"

\* C20 as stated: in create, update and delete of both resources the first
\* failing GRANT or REVOKE is the last statement of the operation, and its
\* error is the one the operation returns.
C20_FirstFailureStops ==
    /\ C20_PrivilegesAbort
    /\ rgOp \in C20_Operations =>
          \A i \in DOMAIN rgStmts :
              rgStmts[i].result # Nil => C20_Stopped(i, rgStmts[i].result)

\* C20 happens: a delete of role grants revoked from one grantee, failed at
\* the next one and left the revokes after it unsent
C20_Witness ==
    /\ rgOp = "delete"
    /\ rgErr # Nil
    /\ Len(rgStmts) > 1
    /\ Len(rgStmts) < Len(DeleteSteps(rgAttrs))
    /\ rgStmts[Len(rgStmts)].err = rgErr

\* a REVOKE DATABASE ROLE that failed with error 2003 and was followed by
\* the lookup of the grantee: the one failure the claim lets pass
C21_GranteeNotFound(st) ==
    /\ st.verb = "REVOKE"
    /\ st.result = SnowflakeError(ErrNotExistOrNotAuthorized)
    /\ st.lookup # "none"

\* C21: whenever a statement or query a callback of the role-grant
\* resource sent ended with an error, and it is not a REVOKE answered with
\* the grantee-not-found error, the callback returns that error to the
\* host; this includes the SHOW DATABASE ROLES of ReadDatabaseRoleGrants.
C21_RemoteErrorsSurface ==
    rgOp \in {"create", "read", "update", "delete"} =>
        \A i \in DOMAIN rgStmts :
            (rgStmts[i].result # Nil /\ ~C21_GranteeNotFound(rgStmts[i])) =>
                rgErr = rgStmts[i].result

\* C22: for an identity whose role, database, schema or object name holds
\* "|", or whose privilege holds ",", decoding the identifier String()
\* produced yields the original value of every field the identifier
\* carries.
C22_DelimitersSurvive ==
    idPc = "decoded" =>
        /\ idOut # PanicID
        /\ [idOut EXCEPT !.InDatabase = idIn.InDatabase] = idIn

\* the grant target of the GRANT that Create sends for the configuration
C23_CreateTarget == <<CreateConfigure(ResourceData(cfg)).on>>

\* C23: every GRANT and REVOKE that an update or a delete of a privilege
\* resource sends names the grant target that the GRANT of Create names
\* for the same configuration, qualified by database_name.
C23_SameTargetAsCreate ==
    op \in {"update", "delete"} =>
        \A i \in DOMAIN stmts :
            stmts[i].verb \in {"GRANT", "REVOKE"} =>
                stmts[i].on = C23_CreateTarget

\* C24: after a successful update of a resource with with_grant_option =
\* true, every GRANT the update sent carries the grant option, and every
\* privilege of the new desired set that the remote system holds for the
\* role is among the privileges the read reported.
C24_UpdateGrantsWithOption ==
    (op = "update" /\ err = "nil" /\ cfg.with_grant_option) =>
        /\ \A i \in DOMAIN stmts :
               stmts[i].verb = "GRANT" => stmts[i].withGrantOption
        /\ \A p \in cfg.privileges :
               (\E g \in remote : g.privilege = p) => p \in attrs.privileges

\* the identity that the read of the current state decoded
C25_Identity == NewGrantPrivilegesToDatabaseRoleID(id)

\* C25: a read of a future schema-object grant whose identity has
\* InSchema = true sends SHOW FUTURE GRANTS IN SCHEMA database.schema, and
\* not the database-wide query.
C25_FutureInSchemaQueriesSchema ==
    (/\ id # EmptyStr
     /\ C25_Identity.OnSchemaObject
     /\ C25_Identity.Future
     /\ C25_Identity.InSchema) =>
        \A i \in DOMAIN stmts :
            stmts[i].verb = "SHOW" =>
                /\ stmts[i].show[1].In # <<>>
                /\ stmts[i].show[1].In[1].Schema =
                       <<DatabaseObjectIdentifier(C25_Identity.DatabaseName,
                                                  C25_Identity.SchemaName)>>
                /\ stmts[i].show[1].In[1].Database = <<>>

\* C26: importing a database-role-grants resource by the identifier that
\* a create or a read stored succeeds, sets database_name and role_name to
\* the configured names, and sets roles and users to the sets the
\* identifier was built from, so that the attributes encode to the
\* identifier again.
C26_ImportRestores ==
    rgOp = "import" =>
        /\ rgErr = Nil
        /\ rgAttrs.database_name = rgCfg.database_name
        /\ rgAttrs.role_name = rgCfg.role_name
        /\ GrantID(rgAttrs.database_name, rgAttrs.role_name,
                   expandGranteeList(rgAttrs.roles),
                   expandGranteeList(rgAttrs.users)) = rgId

\* the grantees of one kind in a set of attributes
C27_Kind(a, to) == IF to = "USER" THEN a.users ELSE a.roles

\* the positions of the GRANT and REVOKE statements among those sent
C27_Sent(s) == {i \in DOMAIN s : s[i].verb \in {"GRANT", "REVOKE"}}

\* the statements s of an update from the attributes old to the attributes
\* new: users before roles, within a kind revokes before grants, a REVOKE
\* only for old minus new and a GRANT only for new minus old, and a read
\* only behind the statements of both kinds, all of them sent and none of
\* them returning an error
C27_Ordered(s, old, new) ==
    /\ \A i, j \in C27_Sent(s) :
          i < j =>
              /\ ~(s[i].to = "ROLE" /\ s[j].to = "USER")
              /\ s[i].to = s[j].to =>
                     ~(s[i].verb = "GRANT" /\ s[j].verb = "REVOKE")
    /\ \A i \in C27_Sent(s) :
          /\ s[i].verb = "REVOKE" =>
                 s[i].grantee \in
                     C27_Kind(old, s[i].to) \ C27_Kind(new, s[i].to)
          /\ s[i].verb = "GRANT" =>
                 s[i].grantee \in
                     C27_Kind(new, s[i].to) \ C27_Kind(old, s[i].to)
    /\ \A k \in DOMAIN s \ C27_Sent(s) :
          /\ \A i \in C27_Sent(s) : i < k /\ s[i].err = Nil
          /\ \A to \in {"USER", "ROLE"} :
                /\ \A g \in C27_Kind(old, to) \ C27_Kind(new, to) :
                      \E i \in C27_Sent(s) :
                          /\ s[i].verb = "REVOKE"
                          /\ s[i].to = to /\ s[i].grantee = g
                /\ \A g \in C27_Kind(new, to) \ C27_Kind(old, to) :
                      \E i \in C27_Sent(s) :
                          /\ s[i].verb = "GRANT"
                          /\ s[i].to = to /\ s[i].grantee = g

\* C27: every update of a database-role-grants resource processes users
\* before roles, within each kind revokes every grantee of old minus new
\* before it grants any grantee of new minus old, sends nothing for a
\* grantee in both, and reads only after both kinds went through without
\* an error.
C27_UpdateOrder ==
    [][(/\ rgOp' = "update"
        /\ <<rgAttrs, rgId, rgStmts, rgErr, rgCfg>>'
               # <<rgAttrs, rgId, rgStmts, rgErr, rgCfg>>)
           => C27_Ordered(rgStmts', rgAttrs, rgCfg')]_vars

\* C27 witness: an update that revoked from a user and from a role, granted
\* to another role, and then read.
C27_Witness ==
    /\ rgOp = "update"
    /\ \E i, j, k, r \in DOMAIN rgStmts :
          /\ i < j /\ j < k /\ k < r
          /\ rgStmts[i].verb = "REVOKE" /\ rgStmts[i].to = "USER"
          /\ rgStmts[j].verb = "REVOKE" /\ rgStmts[j].to = "ROLE"
          /\ rgStmts[k].verb = "GRANT" /\ rgStmts[k].to = "ROLE"
          /\ rgStmts[r].verb \notin {"GRANT", "REVOKE"}

\* a REVOKE of the role-grant resource that succeeded, or that was answered
\* 2003 and suppressed by its helper after the lookup of the grantee
C28_Passed(st) ==
    /\ st.verb = "REVOKE"
    /\ st.err = Nil
    /\ \/ st.result = Nil
       \/ /\ st.result = SnowflakeError(ErrNotExistOrNotAuthorized)
          /\ st.lookup # "none"

\* a step that is a delete of the role-grant resource
C28_RoleGrantsDelete ==
    /\ rgOp' = "delete"
    /\ <<rgAttrs, rgId, rgStmts, rgErr, rgOp>>'
           # <<rgAttrs, rgId, rgStmts, rgErr, rgOp>>

\* a step that is a delete of the privilege resource
C28_PrivilegesDelete ==
    /\ op' = "delete"
    /\ <<attrs, id, stmts, err, op>>' # <<attrs, id, stmts, err, op>>

\* C28: a delete of either resource clears the identifier only when every
\* REVOKE of the delete was sent and each succeeded or was suppressed as
\* grantee-not-found; when a REVOKE fails, the delete returns its error and
\* leaves the identifier and every attribute as they were.
C28_DeleteClearsLast ==
    [][/\ C28_RoleGrantsDelete =>
              /\ rgId' = EmptyStr =>
                     /\ rgErr' = Nil
                     /\ Len(rgStmts') = Len(DeleteSteps(rgAttrs))
                     /\ \A i \in DOMAIN rgStmts' : C28_Passed(rgStmts'[i])
              /\ \A i \in DOMAIN rgStmts' :
                     ~C28_Passed(rgStmts'[i]) =>
                         /\ rgErr' = rgStmts'[i].result
                         /\ rgErr' # Nil
                         /\ rgId' = rgId
                         /\ rgAttrs' = rgAttrs
       /\ C28_PrivilegesDelete =>
              /\ id' = EmptyStr =>
                     /\ err' = "nil"
                     /\ Len(stmts') = 1
                     /\ stmts'[1].verb = "REVOKE"
              /\ err' # "nil" => id' = id /\ attrs' = attrs
              /\ err' = "nil" => id' = EmptyStr]_vars

\* C28 witness: a delete of role grants cleared the identifier after two
\* or more REVOKEs, one of them suppressed as grantee-not-found.
C28_Witness ==
    /\ rgOp = "delete"
    /\ rgId = EmptyStr
    /\ Len(rgStmts) > 1
    /\ \E i \in DOMAIN rgStmts : rgStmts[i].result # Nil
    /\ \A i \in DOMAIN rgStmts : C28_Passed(rgStmts[i])

====
